---- MODULE Spec2Model ----
(***************************************************************************)
(* Image-to-structured-data extraction pipeline of replit-bookkeeping:     *)
(* utils/ocr_processor.py, utils/code_extractor.py,                        *)
(* utils/code_extractor_simple.py and utils/image_processor.py.            *)
(*                                                                         *)
(* Python strings are modelled as sequences of one-character strings, so   *)
(* that slicing, splitting, prefix tests and regular expressions are       *)
(* computed character by character as the code computes them.              *)
(***************************************************************************)
EXTENDS Integers, Sequences, FiniteSets, TLC

VARIABLES
    fn,       \* pure-function calls: name of the last function applied ("idle" before)
    arg,      \* pure-function calls: the input of the call
    ret,      \* pure-function calls: the values returned so far
    PYZBAR_AVAILABLE,  \* code_extractor: whether the import of pyzbar succeeded
    img,               \* the image file the detector is called on
    cpc,               \* position in extract_codes_from_image
    mpc,               \* position in multi_scale_detection
    idx,               \* index of the preprocessed variant or of the scale at hand
    extracted_codes,   \* extracted_codes of extract_codes_from_image
    ms_codes,          \* extracted_codes of multi_scale_detection
    contrib,           \* how many codes each strategy appended (history)
    log,               \* what the call did to the image so far (history)
    cret,              \* the list returned by the call
    reported,          \* the texts of the valid symbols the decoder reported (history)
    failed,            \* the step whose except branch was just taken, if any (history)
    ocr,               \* ocr_processor: the image file and what each OCR attempt yields on it
    tpc,               \* position in extract_text_from_image
    tidx,              \* index of the page segmentation mode at hand
    tret,              \* the text returned by extract_text_from_image
    tried,             \* the OCR attempts made so far, in order (history)
    files,             \* image_processor: the files on disk, path -> content
    pcall,             \* image_processor: the last call and what it returned
    heap,              \* models: the BookkeepingRecord objects constructed so far
    records,           \* models: storage.records, id -> reference to an object
    scall,             \* models: the last call of a RecordStorage method and its result
    session,           \* routes: the server-side session of each client
    req                \* routes: the last request handled and what the handler did

pureVars == <<fn, arg, ret>>
detVars == <<PYZBAR_AVAILABLE, img, cpc, mpc, idx, extracted_codes, ms_codes, contrib,
             log, cret, reported, failed>>
textVars == <<ocr, tpc, tidx, tret, tried>>
preVars == <<files, pcall>>
storeVars == <<heap, records, scall>>
webVars == <<session, req>>
vars == <<fn, arg, ret, PYZBAR_AVAILABLE, img, cpc, mpc, idx, extracted_codes, ms_codes,
          contrib, log, cret, reported, failed, ocr, tpc, tidx, tret, tried,
          files, pcall, heap, records, scall, session, req>>

\* what the operations of one module leave alone
notPure == <<detVars, textVars, preVars, storeVars, webVars>>
notDet == <<pureVars, textVars, preVars, storeVars, webVars>>
notText == <<pureVars, detVars, preVars, storeVars, webVars>>
notPre == <<pureVars, detVars, textVars, storeVars, webVars>>
notStore == <<pureVars, detVars, textVars, preVars, webVars>>
notWeb == <<pureVars, detVars, textVars, preVars>>

(***************************************************************************)
(* Character classes                                                       *)
(***************************************************************************)
Digits == {"0", "1", "2", "3", "4", "5", "6", "7", "8", "9"}

Upper == {"A", "B", "C", "D", "E", "F", "G", "H", "I", "J", "K", "L", "M",
          "N", "O", "P", "Q", "R", "S", "T", "U", "V", "W", "X", "Y", "Z"}

Lower == {"a", "b", "c", "d", "e", "f", "g", "h", "i", "j", "k", "l", "m",
          "n", "o", "p", "q", "r", "s", "t", "u", "v", "w", "x", "y", "z"}

\* \w of Python's re on the characters of the model
WordChars == Digits \cup Upper \cup Lower \cup {"_"}

\* \s of Python's re, and the characters str.strip() removes
Whitespace == {" ", "\n", "\t", "\r"}

\* the grave accent, which the TLA+ lexer does not accept inside a string
Backtick == "grave"

\* the punctuation kept by the second re.sub of clean_ocr_text
AllowedPunct == {"-", ".", ",", "!", "@", "#", "$", "%", "^", "&", "*", "(", ")",
                 "_", "+", "=", "[", "]", "{", "}", "|", ";", ":", "<", ">", "?",
                 "/", "~", Backtick, "\""}

(***************************************************************************)
(* Generic string helpers                                                  *)
(***************************************************************************)
\* all sequences over S of length 0..n
SeqsUpTo(S, n) == UNION {[1..k -> S] : k \in 0..n}

\* s[i:j] of Python for 0 <= i, j (0-based, j exclusive, clipped to the length)
Slice(s, i, j) ==
    LET hi == IF j > Len(s) THEN Len(s) ELSE j
    IN  IF i >= hi THEN <<>> ELSE SubSeq(s, i + 1, hi)

\* str.startswith
StartsWith(s, p) == Len(s) >= Len(p) /\ SubSeq(s, 1, Len(p)) = p

\* str.strip(): drop leading and trailing whitespace
RECURSIVE LStrip(_)
LStrip(s) == IF s # <<>> /\ Head(s) \in Whitespace THEN LStrip(Tail(s)) ELSE s

RECURSIVE RStrip(_)
RStrip(s) ==
    IF s # <<>> /\ s[Len(s)] \in Whitespace THEN RStrip(SubSeq(s, 1, Len(s) - 1)) ELSE s

Strip(s) == RStrip(LStrip(s))

(***************************************************************************)
(* ocr_processor.clean_ocr_text                                            *)
(***************************************************************************)
\* re.sub(r'\s+', ' ', text): every maximal run of whitespace becomes one space
RECURSIVE CollapseWhitespace(_)
CollapseWhitespace(s) ==
    IF s = <<>> THEN <<>>
    ELSE IF Head(s) \in Whitespace
         THEN <<" ">> \o CollapseWhitespace(LStrip(s))
         ELSE <<Head(s)>> \o CollapseWhitespace(Tail(s))

\* re.sub(r'[^\w\s\-.,!@#...]', '', text): delete every character outside the allowlist
KeptByClean(c) == c \in WordChars \cup Whitespace \cup AllowedPunct

RemoveArtifacts(s) == SelectSeq(s, KeptByClean)

\* the letters the replacements dict lists, rewritten to its digits
Replaced(c) ==
    CASE c \in {"O", "o"} -> "0"
      [] c \in {"l", "I"} -> "1"
      [] c = "S" -> "5"
      [] c = "G" -> "6"
      [] c = "B" -> "8"
      [] OTHER -> c

\* a cleaning that applies the replacements dict to every character
ApplyReplacements(text) == [i \in 1..Len(text) |-> Replaced(text[i])]

\* "Fix common OCR mistakes": the replacements dict is built and never applied
FixOcrMistakes(text) == text

clean_ocr_text(text) ==
    IF text = <<>> THEN <<>>
    ELSE Strip(FixOcrMistakes(RemoveArtifacts(CollapseWhitespace(text))))

(***************************************************************************)
(* Regular expressions (Python's re): a backtracking matcher.  A pattern   *)
(* is a record; Ends(r, s, i) is the sequence of offsets at which a match  *)
(* of r that starts at offset i of s can end, in the order in which the    *)
(* backtracking engine tries them (greedy repetition first, alternatives   *)
(* left to right), so its head is the match re reports.                    *)
(***************************************************************************)
UpperSeq == <<"A", "B", "C", "D", "E", "F", "G", "H", "I", "J", "K", "L", "M",
              "N", "O", "P", "Q", "R", "S", "T", "U", "V", "W", "X", "Y", "Z">>

LowerSeq == <<"a", "b", "c", "d", "e", "f", "g", "h", "i", "j", "k", "l", "m",
              "n", "o", "p", "q", "r", "s", "t", "u", "v", "w", "x", "y", "z">>

ToLowerChar(c) ==
    IF c \in Upper THEN LowerSeq[CHOOSE i \in 1..26 : UpperSeq[i] = c] ELSE c

ToUpperChar(c) ==
    IF c \in Lower THEN UpperSeq[CHOOSE i \in 1..26 : LowerSeq[i] = c] ELSE c

\* str.lower()
LowerStr(s) == [i \in 1..Len(s) |-> ToLowerChar(s[i])]

\* a character set under re.IGNORECASE
IgnoreCase(S) == S \cup {ToLowerChar(c) : c \in S} \cup {ToUpperChar(c) : c \in S}

ReSet(S) == [op |-> "set", chars |-> S]
ReCat(subs) == [op |-> "cat", subs |-> subs]
ReAlt(subs) == [op |-> "alt", subs |-> subs]
\* greedy repetition {lo,hi}; hi = -1 stands for no upper limit
ReRep(sub, lo, hi) == [op |-> "rep", sub |-> sub, lo |-> lo, hi |-> hi]
ReStar(sub) == ReRep(sub, 0, -1)
RePlus(sub) == ReRep(sub, 1, -1)
ReOpt(sub) == ReRep(sub, 0, 1)
\* \b
ReWordBoundary == [op |-> "wb"]
\* a literal string, and the same under re.IGNORECASE
ReLit(str) == ReCat([i \in 1..Len(str) |-> ReSet({str[i]})])
ReLitI(str) == ReCat([i \in 1..Len(str) |-> ReSet(IgnoreCase({str[i]}))])

\* \b matches at offset i iff exactly one of the characters around it is a word character
AtWordBoundary(s, i) ==
    (i > 0 /\ s[i] \in WordChars) # (i < Len(s) /\ s[i + 1] \in WordChars)

RECURSIVE Ends(_, _, _), EndsCat(_, _, _), CatFrom(_, _, _), EndsAlt(_, _, _),
          EndsRep(_, _, _, _, _), RepFrom(_, _, _, _, _)

Ends(r, s, i) ==
    CASE r.op = "set" -> IF i < Len(s) /\ s[i + 1] \in r.chars THEN <<i + 1>> ELSE <<>>
      [] r.op = "wb"  -> IF AtWordBoundary(s, i) THEN <<i>> ELSE <<>>
      [] r.op = "cat" -> EndsCat(r.subs, s, i)
      [] r.op = "alt" -> EndsAlt(r.subs, s, i)
      [] r.op = "rep" -> EndsRep(r.sub, r.lo, r.hi, s, i)

EndsCat(subs, s, i) ==
    IF subs = <<>> THEN <<i>> ELSE CatFrom(Tail(subs), s, Ends(Head(subs), s, i))

CatFrom(subs, s, starts) ==
    IF starts = <<>> THEN <<>>
    ELSE EndsCat(subs, s, Head(starts)) \o CatFrom(subs, s, Tail(starts))

EndsAlt(subs, s, i) ==
    IF subs = <<>> THEN <<>> ELSE Ends(Head(subs), s, i) \o EndsAlt(Tail(subs), s, i)

\* the length of the longest run of characters of S that starts at offset i
RunLength(S, s, i) ==
    Cardinality({k \in 1..(Len(s) - i) : \A j \in 1..k : s[i + j] \in S})

\* a repeated character set takes the longest run first and gives characters
\* back one by one; any other repeated pattern is matched once more, or left
EndsRep(sub, lo, hi, s, i) ==
    IF sub.op = "set"
    THEN LET run == RunLength(sub.chars, s, i)
             top == IF hi >= 0 /\ hi < run THEN hi ELSE run
         IN  [m \in 1..(top - lo + 1) |-> i + top + 1 - m]
    ELSE LET progress(e) == e > i
             again == IF hi = 0 THEN <<>>
                      ELSE RepFrom(sub, IF lo > 0 THEN lo - 1 ELSE 0,
                                   IF hi > 0 THEN hi - 1 ELSE hi, s,
                                   SelectSeq(Ends(sub, s, i), progress))
         IN  again \o (IF lo = 0 THEN <<i>> ELSE <<>>)

RepFrom(sub, lo, hi, s, starts) ==
    IF starts = <<>> THEN <<>>
    ELSE EndsRep(sub, lo, hi, s, Head(starts)) \o RepFrom(sub, lo, hi, s, Tail(starts))

\* re.fullmatch(r, s) is not None
FullMatch(r, s) == \E k \in 1..Len(Ends(r, s, 0)) : Ends(r, s, 0)[k] = Len(s)

\* the offsets >= from at which r matches
MatchStarts(r, s, from) == {p \in from..Len(s) : Ends(r, s, p) # <<>>}

Min(S) == CHOOSE x \in S : \A y \in S : x <= y

\* re.findall(r, s) for a pattern without groups: the leftmost matches, one after
\* the other, without overlap
RECURSIVE FindallFrom(_, _, _)
FindallFrom(r, s, from) ==
    IF MatchStarts(r, s, from) = {} THEN <<>>
    ELSE LET p == Min(MatchStarts(r, s, from))
             e == Head(Ends(r, s, p))
         IN  <<Slice(s, p, e)>> \o
             (IF e > p THEN FindallFrom(r, s, e)
              ELSE IF p < Len(s) THEN FindallFrom(r, s, p + 1) ELSE <<>>)

Findall(r, s) == FindallFrom(r, s, 0)

\* re.findall for a pattern pfx(grp): one capturing group, at the end of the
\* pattern, so findall returns the text of the group
GroupStarts(pfx, grp, s, p) ==
    LET hasGroup(e) == Ends(grp, s, e) # <<>> IN SelectSeq(Ends(pfx, s, p), hasGroup)

RECURSIVE FindallGroupFrom(_, _, _, _)
FindallGroupFrom(pfx, grp, s, from) ==
    LET starts == {p \in from..Len(s) : GroupStarts(pfx, grp, s, p) # <<>>}
    IN  IF starts = {} THEN <<>>
        ELSE LET p == Min(starts)
                 g == Head(GroupStarts(pfx, grp, s, p))
                 e == Head(Ends(grp, s, g))
             IN  <<Slice(s, g, e)>> \o
                 (IF e > p THEN FindallGroupFrom(pfx, grp, s, e)
                  ELSE IF p < Len(s) THEN FindallGroupFrom(pfx, grp, s, p + 1) ELSE <<>>)

FindallGroup(pfx, grp, s) == FindallGroupFrom(pfx, grp, s, 0)

(***************************************************************************)
(* ocr_processor.extract_structured_data                                   *)
(***************************************************************************)
ReDigit == ReSet(Digits)
ReSpaces == ReStar(ReSet(Whitespace))
\* \d+\.?\d*
ReNumber == ReCat(<<RePlus(ReDigit), ReOpt(ReSet({"."})), ReStar(ReDigit)>>)
ReUSD == ReLitI(<<"U", "S", "D">>)

amount_patterns == <<
    \* \$\s*\d+\.?\d*
    ReCat(<<ReSet({"$"}), ReSpaces, ReNumber>>),
    \* \d+\.\d{2}\s*USD
    ReCat(<<RePlus(ReDigit), ReSet({"."}), ReRep(ReDigit, 2, 2), ReSpaces, ReUSD>>),
    \* USD\s*\d+\.?\d*
    ReCat(<<ReUSD, ReSpaces, ReNumber>>),
    \* \d{1,3}(?:,\d{3})*\.?\d*
    ReCat(<<ReRep(ReDigit, 1, 3), ReStar(ReCat(<<ReSet({","}), ReRep(ReDigit, 3, 3)>>)),
            ReOpt(ReSet({"."})), ReStar(ReDigit)>>) >>

\* a separator class without the slash
ReDashOnly == ReSet({"-"})

ReDateSep == ReSet({"/", "-"})

ReMonth == ReAlt(<<ReLitI(<<"J", "a", "n">>), ReLitI(<<"F", "e", "b">>),
                   ReLitI(<<"M", "a", "r">>), ReLitI(<<"A", "p", "r">>),
                   ReLitI(<<"M", "a", "y">>), ReLitI(<<"J", "u", "n">>),
                   ReLitI(<<"J", "u", "l">>), ReLitI(<<"A", "u", "g">>),
                   ReLitI(<<"S", "e", "p">>), ReLitI(<<"O", "c", "t">>),
                   ReLitI(<<"N", "o", "v">>), ReLitI(<<"D", "e", "c">>)>>)

date_patterns == <<
    \* \d{1,2}[/-]\d{1,2}[/-]\d{2,4}
    ReCat(<<ReRep(ReDigit, 1, 2), ReDateSep, ReRep(ReDigit, 1, 2), ReDateSep,
            ReRep(ReDigit, 2, 4)>>),
    \* \d{2,4}[/-]\d{1,2}[/-]\d{1,2}
    ReCat(<<ReRep(ReDigit, 2, 4), ReDateSep, ReRep(ReDigit, 1, 2), ReDateSep,
            ReRep(ReDigit, 1, 2)>>),
    \* \b\d{1,2}\s+(?:Jan|...|Dec)\s+\d{2,4}\b
    ReCat(<<ReWordBoundary, ReRep(ReDigit, 1, 2), RePlus(ReSet(Whitespace)), ReMonth,
            RePlus(ReSet(Whitespace)), ReRep(ReDigit, 2, 4), ReWordBoundary>>) >>

\* \b[A-Za-z0-9._%+-]+@[A-Za-z0-9.-]+\.[A-Z|a-z]{2,}\b
email_pattern ==
    ReCat(<<ReWordBoundary,
            RePlus(ReSet(Upper \cup Lower \cup Digits \cup {".", "_", "%", "+", "-"})),
            ReSet({"@"}),
            RePlus(ReSet(Upper \cup Lower \cup Digits \cup {".", "-"})),
            ReSet({"."}),
            ReRep(ReSet(Upper \cup Lower \cup {"|"}), 2, -1),
            ReWordBoundary>>)

RePhoneSep == ReOpt(ReSet({"-", "."}))

phone_patterns == <<
    \* \b\d{3}[-.]?\d{3}[-.]?\d{4}\b
    ReCat(<<ReWordBoundary, ReRep(ReDigit, 3, 3), RePhoneSep, ReRep(ReDigit, 3, 3),
            RePhoneSep, ReRep(ReDigit, 4, 4), ReWordBoundary>>),
    \* \(\d{3}\)\s*\d{3}[-.]?\d{4}
    ReCat(<<ReSet({"("}), ReRep(ReDigit, 3, 3), ReSet({")"}), ReSpaces,
            ReRep(ReDigit, 3, 3), RePhoneSep, ReRep(ReDigit, 4, 4)>>) >>

\* [A-Z0-9-] under re.IGNORECASE
ReInvoiceChar == ReSet(IgnoreCase(Upper) \cup Digits \cup {"-"})

\* the invoice patterns, each as <<what precedes the group, the group>>
invoice_patterns == <<
    \* (?:Invoice|INV|Receipt|RCP)[\s#:]*([A-Z0-9-]+)
    <<ReCat(<<ReAlt(<<ReLitI(<<"I", "n", "v", "o", "i", "c", "e">>),
                      ReLitI(<<"I", "N", "V">>),
                      ReLitI(<<"R", "e", "c", "e", "i", "p", "t">>),
                      ReLitI(<<"R", "C", "P">>)>>),
              ReStar(ReSet(Whitespace \cup {"#", ":"}))>>),
      RePlus(ReInvoiceChar)>>,
    \* #\s*([A-Z0-9-]{3,})
    <<ReCat(<<ReSet({"#"}), ReSpaces>>), ReRep(ReInvoiceChar, 3, -1)>> >>

\* matches.extend(re.findall(pattern, text)) for each pattern of a list, in order
RECURSIVE FindallEach(_, _)
FindallEach(patterns, s) ==
    IF patterns = <<>> THEN <<>>
    ELSE Findall(Head(patterns), s) \o FindallEach(Tail(patterns), s)

RECURSIVE FindallGroupEach(_, _)
FindallGroupEach(patterns, s) ==
    IF patterns = <<>> THEN <<>>
    ELSE FindallGroup(Head(patterns)[1], Head(patterns)[2], s)
             \o FindallGroupEach(Tail(patterns), s)

\* the five lists as they are before the duplicates are removed (lines 121-166)
RawMatches(ocr_text) ==
    [amounts         |-> FindallEach(amount_patterns, ocr_text),
     dates           |-> FindallEach(date_patterns, ocr_text),
     emails          |-> Findall(email_pattern, ocr_text),
     phone_numbers   |-> FindallEach(phone_patterns, ocr_text),
     invoice_numbers |-> FindallGroupEach(invoice_patterns, ocr_text)]

FieldNames == {"amounts", "dates", "emails", "phone_numbers", "invoice_numbers"}

Range(q) == {q[i] : i \in 1..Len(q)}

\* every ordering of the elements of a finite set
RECURSIVE Orderings(_)
Orderings(S) ==
    IF S = {} THEN {<<>>}
    ELSE UNION {{<<x>> \o q : q \in Orderings(S \ {x})} : x \in S}

\* the lists returned as they were collected, duplicates included
KeepDuplicates(xs) == {xs}

\* list(set(xs)) (lines 168-170): the elements of xs, once each, in an order the
\* set's hashing decides; every order is a possible value
RemoveDuplicates(xs) == Orderings(Range(xs))

\* the values extract_structured_data can return for a text
extract_structured_data(ocr_text) ==
    IF ocr_text = <<>>
    THEN {[amounts |-> <<>>, dates |-> <<>>, emails |-> <<>>, phone_numbers |-> <<>>,
           invoice_numbers |-> <<>>]}
    ELSE LET raw == RawMatches(ocr_text)
         IN  {[amounts |-> a, dates |-> d, emails |-> e, phone_numbers |-> ph,
               invoice_numbers |-> inv] :
                 a \in RemoveDuplicates(raw.amounts), d \in RemoveDuplicates(raw.dates),
                 e \in RemoveDuplicates(raw.emails),
                 ph \in RemoveDuplicates(raw.phone_numbers),
                 inv \in RemoveDuplicates(raw.invoice_numbers)}

(***************************************************************************)
(* code_extractor: the structured interpretation of a decoded payload.     *)
(* A dict is a function from its keys (strings) to its values.             *)
(***************************************************************************)
\* the keys of the interpretation
Key == [
    content |-> <<"c", "o", "n", "t", "e", "n", "t">>,
    length |-> <<"l", "e", "n", "g", "t", "h">>,
    type |-> <<"t", "y", "p", "e">>,
    url |-> <<"u", "r", "l">>,
    security |-> <<"s", "e", "c", "u", "r", "i", "t", "y">>,
    ssid |-> <<"s", "s", "i", "d">>,
    password |-> <<"p", "a", "s", "s", "w", "o", "r", "d">>,
    hidden |-> <<"h", "i", "d", "d", "e", "n">>,
    email |-> <<"e", "m", "a", "i", "l">>,
    phone |-> <<"p", "h", "o", "n", "e">>,
    latitude |-> <<"l", "a", "t", "i", "t", "u", "d", "e">>,
    longitude |-> <<"l", "o", "n", "g", "i", "t", "u", "d", "e">>,
    json_data |-> <<"j", "s", "o", "n", "_", "d", "a", "t", "a">>,
    barcode_type |-> <<"b", "a", "r", "c", "o", "d", "e", "_", "t", "y", "p", "e">>,
    is_product_code |->
        <<"i", "s", "_", "p", "r", "o", "d", "u", "c", "t", "_", "c", "o", "d", "e">>,
    country_code |-> <<"c", "o", "u", "n", "t", "r", "y", "_", "c", "o", "d", "e">>,
    manufacturer_code |->
        <<"m", "a", "n", "u", "f", "a", "c", "t", "u", "r", "e", "r", "_", "c", "o", "d", "e">>,
    product_code |-> <<"p", "r", "o", "d", "u", "c", "t", "_", "c", "o", "d", "e">>,
    check_digit |-> <<"c", "h", "e", "c", "k", "_", "d", "i", "g", "i", "t">>,
    is_numeric |-> <<"i", "s", "_", "n", "u", "m", "e", "r", "i", "c">>,
    is_alphanumeric |->
        <<"i", "s", "_", "a", "l", "p", "h", "a", "n", "u", "m", "e", "r", "i", "c">>,
    is_url |-> <<"i", "s", "_", "u", "r", "l">>,
    is_email |-> <<"i", "s", "_", "e", "m", "a", "i", "l">>,
    error |-> <<"e", "r", "r", "o", "r">> ]

\* the values of info['type']
TypeName == [
    url |-> <<"u", "r", "l">>,
    wifi |-> <<"w", "i", "f", "i">>,
    vcard |-> <<"v", "c", "a", "r", "d">>,
    email |-> <<"e", "m", "a", "i", "l">>,
    phone |-> <<"p", "h", "o", "n", "e">>,
    sms |-> <<"s", "m", "s">>,
    location |-> <<"l", "o", "c", "a", "t", "i", "o", "n">>,
    json |-> <<"j", "s", "o", "n">>,
    text |-> <<"t", "e", "x", "t">>,
    numeric |-> <<"n", "u", "m", "e", "r", "i", "c">>,
    alphanumeric |-> <<"a", "l", "p", "h", "a", "n", "u", "m", "e", "r", "i", "c">> ]

\* the prefixes extract_qr_info tests
Prefix == [
    http |-> <<"h", "t", "t", "p", ":", "/", "/">>,
    https |-> <<"h", "t", "t", "p", "s", ":", "/", "/">>,
    WIFI |-> <<"W", "I", "F", "I", ":">>,
    VCARD |-> <<"B", "E", "G", "I", "N", ":", "V", "C", "A", "R", "D">>,
    mailto |-> <<"m", "a", "i", "l", "t", "o", ":">>,
    tel |-> <<"t", "e", "l", ":">>,
    sms |-> <<"s", "m", "s", ":">>,
    geo |-> <<"g", "e", "o", ":">> ]

\* symbologies (code.type of pyzbar)
Sym == [
    QRCODE |-> <<"Q", "R", "C", "O", "D", "E">>,
    EAN13 |-> <<"E", "A", "N", "1", "3">>,
    EAN8 |-> <<"E", "A", "N", "8">>,
    UPCA |-> <<"U", "P", "C", "A">>,
    UPCE |-> <<"U", "P", "C", "E">>,
    CODE128 |-> <<"C", "O", "D", "E", "1", "2", "8">>,
    CODE39 |-> <<"C", "O", "D", "E", "3", "9">> ]

\* d[k] = v
Put(d, k, v) == [x \in DOMAIN d \cup {k} |-> IF x = k THEN v ELSE d[x]]

\* c in s
Contains(s, c) == \E i \in 1..Len(s) : s[i] = c

\* the offset of the first c in s (s contains c)
IndexOf(s, c) == Min({i \in 1..Len(s) : s[i] = c})

\* s.split(c, 1) for an s that contains c
SplitOnce(s, c) == <<SubSeq(s, 1, IndexOf(s, c) - 1), SubSeq(s, IndexOf(s, c) + 1, Len(s))>>

\* s.split(c)
RECURSIVE Split(_, _)
Split(s, c) ==
    IF ~Contains(s, c) THEN <<s>>
    ELSE <<SplitOnce(s, c)[1]>> \o Split(SplitOnce(s, c)[2], c)

\* str.isdigit(), str.isalpha() and str.isalnum() on the characters of the model
IsDigitStr(s) == s # <<>> /\ \A i \in 1..Len(s) : s[i] \in Digits
IsAlphaChar(c) == c \in Upper \cup Lower
IsAlnumStr(s) == s # <<>> /\ \A i \in 1..Len(s) : s[i] \in Digits \cup Upper \cup Lower

\* float(s) succeeds: optional sign, digits with an optional point and exponent,
\* or inf, infinity, nan, surrounded by optional whitespace
ReDigitPart == ReCat(<<ReDigit, ReStar(ReCat(<<ReOpt(ReSet({"_"})), ReDigit>>))>>)
ReSign == ReOpt(ReSet({"+", "-"}))
ReFloat ==
    ReCat(<<ReSpaces, ReSign,
            ReAlt(<<ReCat(<<ReAlt(<<ReCat(<<ReDigitPart, ReOpt(ReSet({"."})),
                                           ReOpt(ReDigitPart)>>),
                                   ReCat(<<ReSet({"."}), ReDigitPart>>)>>),
                           ReOpt(ReCat(<<ReSet({"e", "E"}), ReSign, ReDigitPart>>))>>),
                    ReLitI(<<"i", "n", "f", "i", "n", "i", "t", "y">>),
                    ReLitI(<<"i", "n", "f">>),
                    ReLitI(<<"n", "a", "n">>)>>),
            ReSpaces>>)
IsFloat(s) == FullMatch(ReFloat, s)
\* the float read from s, kept as the text it was read from
FloatOf(s) == [float |-> Strip(s)]

\* json.loads(s) succeeds, for the documents without arrays and objects: a
\* number, a string without escapes, true, false, null, NaN, Infinity, -Infinity
JsonWhitespace == ReStar(ReSet({" ", "\t", "\n", "\r"}))
ReJsonNumber ==
    ReCat(<<ReOpt(ReSet({"-"})),
            ReAlt(<<ReSet({"0"}), ReCat(<<ReSet(Digits \ {"0"}), ReStar(ReDigit)>>)>>),
            ReOpt(ReCat(<<ReSet({"."}), RePlus(ReDigit)>>)),
            ReOpt(ReCat(<<ReSet({"e", "E"}), ReSign, RePlus(ReDigit)>>))>>)
ReJsonString ==
    ReCat(<<ReSet({"\""}),
            ReStar(ReSet((WordChars \cup AllowedPunct \cup {" ", "'"}) \ {"\""})),
            ReSet({"\""})>>)
ReJson ==
    ReCat(<<JsonWhitespace,
            ReAlt(<<ReJsonNumber, ReJsonString, ReLit(<<"t", "r", "u", "e">>),
                    ReLit(<<"f", "a", "l", "s", "e">>), ReLit(<<"n", "u", "l", "l">>),
                    ReLit(<<"N", "a", "N">>),
                    ReLit(<<"I", "n", "f", "i", "n", "i", "t", "y">>),
                    ReLit(<<"-", "I", "n", "f", "i", "n", "i", "t", "y">>)>>),
            JsonWhitespace>>)
JsonLoads(s) == [ok |-> FullMatch(ReJson, s), value |-> [json |-> Strip(s)]]

\* the mapping of the recognised WiFi keys (line 195)
wifi_mapping(key) ==
    CASE key = <<"T">> -> Key.security
      [] key = <<"S">> -> Key.ssid
      [] key = <<"P">> -> Key.password
      [] key = <<"H">> -> Key.hidden

\* whether the loop of lines 191-196 stores the part with this key
WifiKeyAccepted(key) == key \in {<<"T">>, <<"S">>, <<"P">>, <<"H">>}

\* the loop over qr_data.split(';') (lines 191-196)
RECURSIVE WifiParts(_, _)
WifiParts(parts, info) ==
    IF parts = <<>> THEN info
    ELSE LET part == Head(parts)
         IN  IF Contains(part, ":") /\ WifiKeyAccepted(SplitOnce(part, ":")[1])
             THEN WifiParts(Tail(parts),
                            Put(info, wifi_mapping(SplitOnce(part, ":")[1]),
                                SplitOnce(part, ":")[2]))
             ELSE WifiParts(Tail(parts), info)

\* the loop over qr_data.split('\n') (lines 203-206)
RECURSIVE VcardLines(_, _)
VcardLines(lines, info) ==
    IF lines = <<>> THEN info
    ELSE LET line == Head(lines)
         IN  IF Contains(line, ":")
             THEN VcardLines(Tail(lines),
                             Put(info, LowerStr(SplitOnce(line, ":")[1]),
                                 SplitOnce(line, ":")[2]))
             ELSE VcardLines(Tail(lines), info)

\* lines 226-232: latitude is stored before longitude is parsed
GeoCoords(coords, info) ==
    IF Len(coords) >= 2
    THEN IF ~IsFloat(coords[1]) THEN info
         ELSE IF ~IsFloat(coords[2]) THEN Put(info, Key.latitude, FloatOf(coords[1]))
         ELSE Put(Put(info, Key.latitude, FloatOf(coords[1])), Key.longitude, FloatOf(coords[2]))
    ELSE info

extract_qr_info(qr_data) ==
    LET info == Put(Put(<<>>, Key.content, qr_data), Key.length, Len(qr_data))
    IN  IF StartsWith(LowerStr(qr_data), Prefix.http) \/ StartsWith(LowerStr(qr_data), Prefix.https)
        THEN Put(Put(info, Key.type, TypeName.url), Key.url, qr_data)
        ELSE IF StartsWith(qr_data, Prefix.WIFI)
        THEN WifiParts(Split(qr_data, ";"), Put(info, Key.type, TypeName.wifi))
        ELSE IF StartsWith(qr_data, Prefix.VCARD)
        THEN VcardLines(Split(qr_data, "\n"), Put(info, Key.type, TypeName.vcard))
        ELSE IF StartsWith(qr_data, Prefix.mailto)
        THEN Put(Put(info, Key.type, TypeName.email), Key.email, Slice(qr_data, 7, Len(qr_data)))
        ELSE IF StartsWith(qr_data, Prefix.tel)
        THEN Put(Put(info, Key.type, TypeName.phone), Key.phone, Slice(qr_data, 4, Len(qr_data)))
        ELSE IF StartsWith(qr_data, Prefix.sms)
        THEN Put(Put(info, Key.type, TypeName.sms), Key.phone, Slice(qr_data, 4, Len(qr_data)))
        ELSE IF StartsWith(qr_data, Prefix.geo)
        THEN GeoCoords(Split(Slice(qr_data, 4, Len(qr_data)), ","),
                       Put(info, Key.type, TypeName.location))
        ELSE IF JsonLoads(qr_data).ok
        THEN Put(Put(info, Key.type, TypeName.json), Key.json_data, JsonLoads(qr_data).value)
        ELSE Put(info, Key.type, TypeName.text)

ProductTypes == {Sym.EAN13, Sym.EAN8, Sym.UPCA, Sym.UPCE}

\* the EAN13 subfields cut one digit early: manufacturer [3:7], product [7:12]
Ean13FieldsShifted(info, barcode_data) ==
    Put(Put(Put(Put(info, Key.country_code, Slice(barcode_data, 0, 3)),
                Key.manufacturer_code, Slice(barcode_data, 3, 7)),
            Key.product_code, Slice(barcode_data, 7, 12)),
        Key.check_digit, <<barcode_data[13]>>)

\* the EAN13 subfields (lines 260-263)
Ean13Fields(info, barcode_data) ==
    Put(Put(Put(Put(info, Key.country_code, Slice(barcode_data, 0, 3)),
                Key.manufacturer_code, Slice(barcode_data, 3, 8)),
            Key.product_code, Slice(barcode_data, 8, 12)),
        Key.check_digit, <<barcode_data[13]>>)

\* the UPCA subfields cut one digit early: manufacturer [0:5], product [5:11]
UpcaFieldsShifted(info, barcode_data) ==
    Put(Put(Put(info, Key.manufacturer_code, Slice(barcode_data, 0, 5)),
            Key.product_code, Slice(barcode_data, 5, 11)),
        Key.check_digit, <<barcode_data[12]>>)

\* the UPCA subfields (lines 266-268)
UpcaFields(info, barcode_data) ==
    Put(Put(Put(info, Key.manufacturer_code, Slice(barcode_data, 0, 6)),
            Key.product_code, Slice(barcode_data, 6, 11)),
        Key.check_digit, <<barcode_data[12]>>)

extract_barcode_info(barcode_data, barcode_type) ==
    LET info == Put(Put(Put(<<>>, Key.content, barcode_data), Key.barcode_type, barcode_type),
                    Key.length, Len(barcode_data))
    IN  IF barcode_type \in ProductTypes /\ IsDigitStr(barcode_data)
        THEN IF barcode_type = Sym.EAN13 /\ Len(barcode_data) = 13
             THEN Ean13Fields(Put(info, Key.is_product_code, TRUE), barcode_data)
             ELSE IF barcode_type = Sym.UPCA /\ Len(barcode_data) = 12
             THEN UpcaFields(Put(info, Key.is_product_code, TRUE), barcode_data)
             ELSE Put(info, Key.is_product_code, TRUE)
        ELSE info

extract_code128_info(code_data) ==
    LET info == Put(Put(Put(Put(<<>>, Key.content, code_data), Key.length, Len(code_data)),
                        Key.is_numeric, IsDigitStr(code_data)),
                    Key.is_alphanumeric, IsAlnumStr(code_data))
    IN  IF IsDigitStr(code_data) THEN Put(info, Key.type, TypeName.numeric)
        ELSE IF \E i \in 1..Len(code_data) : IsAlphaChar(code_data[i])
        THEN Put(info, Key.type, TypeName.alphanumeric)
        ELSE info

\* no payload of the model makes one of the three functions above raise, so the
\* except branch of lines 167-169 is not taken
extract_code_info(code_data, code_type) ==
    IF code_type = Sym.QRCODE THEN extract_qr_info(code_data)
    ELSE IF code_type \in ProductTypes THEN extract_barcode_info(code_data, code_type)
    ELSE IF code_type = Sym.CODE128 THEN extract_code128_info(code_data)
    ELSE Put(Put(Put(Put(Put(<<>>, Key.content, code_data), Key.length, Len(code_data)),
                     Key.is_numeric, IsDigitStr(code_data)),
                 Key.is_url, StartsWith(LowerStr(code_data), Prefix.http)
                               \/ StartsWith(LowerStr(code_data), Prefix.https)),
             Key.is_email, Contains(code_data, "@") /\ Contains(code_data, "."))

(***************************************************************************)
(* code_extractor: the decoding backend and the images it is given.        *)
(*                                                                         *)
(* An image file is [exists, w, h, symbols]: whether the path exists, the  *)
(* size of the picture, and the symbols printed on it, each with its type, *)
(* its bytes (a text, and whether the bytes are valid UTF-8) and its       *)
(* bounding rectangle in the pixels of the picture.                        *)
(***************************************************************************)
\* the marker process_decoded_code stores when a symbol cannot be decoded (line 137)
ErrorDecoding == <<"E", "r", "r", "o", "r", " ", "d", "e", "c", "o", "d", "i", "n", "g">>

\* the empty dict {}
EmptyDict == <<>>

\* the scale factors of multi_scale_detection (line 306), in tenths
Scales == <<5, 10, 15, 20>>

\* int(n * scale) of lines 312-313, for a scale in tenths
ScaleUp(n, scale) == (n * scale) \div 10

\* int(n / scale) of lines 329-335, for n >= 0 and a scale in tenths
ScaleDown(n, scale) == (n * 10) \div scale

\* every subsequence of q: the symbols a decode call finds, in scan order
RECURSIVE SubSeqs(_)
SubSeqs(q) ==
    IF q = <<>> THEN {<<>>}
    ELSE SubSeqs(Tail(q)) \cup {<<Head(q)>> \o r : r \in SubSeqs(Tail(q))}

\* a place n pixels into a picture w wide is at n * w2 / w in the picture resized
\* to w2 wide; the decoder reports the whole pixel below it, or the one above
EdgeAt(n, w, w2, up) ==
    IF up THEN (n * w2 + w - 1) \div w ELSE (n * w2) \div w

\* the rectangle the decoder reports for a symbol in the resized picture
ReportedRect(rect, w, h, w2, h2, up) ==
    LET l == EdgeAt(rect.left, w, w2, up)
        r == EdgeAt(rect.left + rect.width, w, w2, up)
        t == EdgeAt(rect.top, h, h2, up)
        b == EdgeAt(rect.top + rect.height, h, h2, up)
    IN  [left |-> l, top |-> t, width |-> r - l, height |-> b - t]

\* the corners of a rectangle: code.polygon
PolygonOf(rect) ==
    << <<rect.left, rect.top>>, <<rect.left, rect.top + rect.height>>,
       <<rect.left + rect.width, rect.top + rect.height>>,
       <<rect.left + rect.width, rect.top>> >>

\* _pyzbar.decode on the picture of the file, resized to w2 x h2: any of the
\* symbols of the picture, in scan order, each where the resized picture shows it
Detect(image, w2, h2) ==
    {[i \in 1..Len(found) |->
         [found[i] EXCEPT !.rect = ReportedRect(@, image.w, image.h, w2, h2, up)]] :
        found \in SubSeqs(image.symbols), up \in BOOLEAN}

(***************************************************************************)
(* code_extractor.process_decoded_code                                     *)
(***************************************************************************)
process_decoded_code(code) ==
    IF code.valid
    THEN [type |-> code.type,
          data |-> code.text,
          raw_data |-> [hex |-> code.text],
          rect |-> code.rect,
          polygon |-> PolygonOf(code.rect),
          extracted_info |-> extract_code_info(code.text, code.type)]
    ELSE [type |-> code.type,
          data |-> ErrorDecoding,
          raw_data |-> <<>>,
          rect |-> EmptyDict,
          polygon |-> <<>>,
          extracted_info |-> EmptyDict]

\* any(existing['data'] == code_data['data'] for existing in extracted_codes)
AlreadyIn(codes, code_data) == \E i \in 1..Len(codes) : codes[i].data = code_data.data

\* lines 42-44: every decoded code is appended
RECURSIVE AppendAll(_, _)
AppendAll(codes, decoded) ==
    IF decoded = <<>> THEN codes
    ELSE AppendAll(Append(codes, process_decoded_code(Head(decoded))), Tail(decoded))

\* lines 74-78: a decoded code is appended unless its data is in the list already
RECURSIVE AppendNew(_, _)
AppendNew(codes, decoded) ==
    IF decoded = <<>> THEN codes
    ELSE LET code_data == process_decoded_code(Head(decoded))
         IN  AppendNew(IF AlreadyIn(codes, code_data) THEN codes
                       ELSE Append(codes, code_data), Tail(decoded))

\* lines 329-335: rectangle and polygon divided by the scale
Remap(code_data, scale) ==
    [code_data EXCEPT
        !.rect = [left |-> ScaleDown(code_data.rect.left, scale),
                  top |-> ScaleDown(code_data.rect.top, scale),
                  width |-> ScaleDown(code_data.rect.width, scale),
                  height |-> ScaleDown(code_data.rect.height, scale)],
        !.polygon = [i \in 1..Len(code_data.polygon) |->
                        <<ScaleDown(code_data.polygon[i][1], scale),
                          ScaleDown(code_data.polygon[i][2], scale)>>]]

\* line 338
WithScale(code_data, scale) ==
    [f \in DOMAIN code_data \cup {"detection_scale"} |->
        IF f = "detection_scale" THEN scale ELSE code_data[f]]

\* lines 325-342 for the codes of one scale.  code_data['rect']['left'] of a code
\* that could not be decoded raises KeyError (its rect is {}), which ends the loop
\* of this scale at line 344 with the codes appended so far.
RECURSIVE AppendScaled(_, _, _)
AppendScaled(codes, decoded, scale) ==
    IF decoded = <<>> THEN codes
    ELSE LET code_data == process_decoded_code(Head(decoded))
         IN  IF scale # 10 /\ DOMAIN code_data.rect = {} THEN codes
             ELSE LET scaled == WithScale(IF scale # 10 THEN Remap(code_data, scale)
                                          ELSE code_data, scale)
                  IN  AppendScaled(IF AlreadyIn(codes, scaled) THEN codes
                                   ELSE Append(codes, scaled), Tail(decoded), scale)

(***************************************************************************)
(* code_extractor.extract_codes_from_image and multi_scale_detection, and  *)
(* the placeholder of code_extractor_simple, step by step.                 *)
(***************************************************************************)
\* a capability check that never finds the backend missing
NeverUnavailable == FALSE

\* line 26: if not PYZBAR_AVAILABLE
BackendUnavailable == ~PYZBAR_AVAILABLE

\* a cascade that goes on to the next strategy whatever was found
AlwaysTryNext(codes) == TRUE

\* lines 51 and 90: if not extracted_codes
NoCodesYet(codes) == codes = <<>>

\* where the call continues after the preprocessed variants (line 90)
AfterVariants(codes) == IF NoCodesYet(codes) THEN "ms" ELSE "ret"

\* where the call continues after the direct decode (line 51)
AfterDirect(codes) == IF NoCodesYet(codes) THEN "cv" ELSE AfterVariants(codes)

\* the number of preprocessed pictures (lines 59-64)
NumVariants == 4

\* codes = _pyzbar.decode(...) behind "if PYZBAR_AVAILABLE and _pyzbar" (lines 39,
\* 70, 320)
Decoded(image, w2, h2) == IF PYZBAR_AVAILABLE THEN Detect(image, w2, h2) ELSE {<<>>}

\* the texts of the symbols of a decoded batch whose bytes are valid
ValidTexts(out) == {out[i].text : i \in {k \in 1..Len(out) : out[k].valid}}

\* the loop over the codes of a scale ends in the except branch of line 344
ScaleAborted(out, scale) ==
    scale # 10 /\ \E i \in 1..Len(out) : DOMAIN process_decoded_code(out[i]).rect = {}

\* no except branch taken
NoFailure == "none"

\* lines 18-34: the capability check and the check that the file exists
ExtractCodesBegin ==
    /\ cpc = "idle"
    /\ IF BackendUnavailable \/ ~img.exists
       THEN cpc' = "done" /\ cret' = <<>>
       ELSE cpc' = "pil" /\ UNCHANGED cret
    /\ failed' = NoFailure
    /\ UNCHANGED reported
    /\ UNCHANGED notDet
    /\ UNCHANGED <<PYZBAR_AVAILABLE, img, mpc, idx, extracted_codes, ms_codes, contrib, log>>

\* lines 36-48: the file opened with PIL and decoded as it is
DirectDecode ==
    /\ cpc = "pil"
    /\ \E raised \in BOOLEAN, out \in Decoded(img, img.w, img.h) :
        LET codes == IF raised THEN extracted_codes
                     ELSE AppendAll(extracted_codes, out)
        IN  /\ extracted_codes' = codes
            /\ contrib' = [contrib EXCEPT !.direct = Len(codes) - Len(extracted_codes)]
            /\ cpc' = AfterDirect(codes)
            /\ reported' = IF raised THEN reported ELSE reported \cup ValidTexts(out)
            /\ failed' = IF raised THEN "pil" ELSE NoFailure
    /\ log' = Append(log, "open")
    /\ UNCHANGED notDet
    /\ UNCHANGED <<PYZBAR_AVAILABLE, img, mpc, idx, ms_codes, cret>>

\* lines 52-64: the file read with OpenCV and the four variants built
ReadForVariants ==
    /\ cpc = "cv"
    /\ \E read \in {"none", "raise", "image"} :
        /\ IF read = "image"
           THEN cpc' = "variant" /\ idx' = 1 /\ log' = log \o <<"imread", "variants">>
           ELSE cpc' = AfterVariants(extracted_codes) /\ log' = Append(log, "imread")
                   /\ UNCHANGED idx
        /\ failed' = IF read = "raise" THEN "cv" ELSE NoFailure
    /\ UNCHANGED reported
    /\ UNCHANGED notDet
    /\ UNCHANGED <<PYZBAR_AVAILABLE, img, mpc, extracted_codes, ms_codes, contrib, cret>>

\* lines 66-84: one preprocessed variant decoded
DecodeVariant ==
    /\ cpc = "variant"
    /\ \E raised \in BOOLEAN, out \in Decoded(img, img.w, img.h) :
        LET codes == IF raised THEN extracted_codes
                     ELSE AppendNew(extracted_codes, out)
        IN  /\ extracted_codes' = codes
            /\ contrib' = [contrib EXCEPT
                              !.variants = @ + Len(codes) - Len(extracted_codes)]
            /\ IF idx < NumVariants
               THEN idx' = idx + 1 /\ UNCHANGED cpc
               ELSE idx' = 0 /\ cpc' = AfterVariants(codes)
            /\ reported' = IF raised THEN reported ELSE reported \cup ValidTexts(out)
            /\ failed' = IF raised THEN "variant" ELSE NoFailure
    /\ UNCHANGED notDet
    /\ UNCHANGED <<PYZBAR_AVAILABLE, img, mpc, ms_codes, log, cret>>

\* multi_scale_detection called on its own
CallMultiScale ==
    /\ cpc = "idle"
    /\ cpc' = "direct_ms"
    /\ failed' = NoFailure
    /\ UNCHANGED reported
    /\ UNCHANGED notDet
    /\ UNCHANGED <<PYZBAR_AVAILABLE, img, mpc, idx, extracted_codes, ms_codes, contrib,
                   log, cret>>

\* lines 296-303: multi_scale_detection reads the file
MultiScaleBegin ==
    /\ cpc \in {"ms", "direct_ms"}
    /\ mpc = "idle"
    /\ \E read \in {"none", "raise", "image"} :
        /\ IF read = "image" THEN mpc' = "scale" /\ idx' = 1
           ELSE mpc' = "done" /\ UNCHANGED idx
        /\ failed' = IF read = "raise" THEN "multiscale" ELSE NoFailure
    /\ UNCHANGED reported
    /\ ms_codes' = <<>>
    /\ log' = log \o <<"multiscale", "imread">>
    /\ UNCHANGED notDet
    /\ UNCHANGED <<PYZBAR_AVAILABLE, img, cpc, extracted_codes, contrib, cret>>

\* the size of the picture at a scale (lines 311-316)
Resized(n, scale) == IF scale # 10 THEN ScaleUp(n, scale) ELSE n

\* lines 308-346: the picture resized to one scale and decoded; cv2.resize raises
\* for an empty target size
DecodeScale ==
    /\ mpc = "scale"
    /\ LET scale == Scales[idx]
           w2 == Resized(img.w, scale)
           h2 == Resized(img.h, scale)
           empty == w2 = 0 \/ h2 = 0
       IN  \E raised \in (IF empty THEN {TRUE} ELSE BOOLEAN),
              out \in (IF empty THEN {<<>>} ELSE Decoded(img, w2, h2)) :
               /\ ms_codes' = IF raised THEN ms_codes
                              ELSE AppendScaled(ms_codes, out, scale)
               /\ reported' = IF raised THEN reported ELSE reported \cup ValidTexts(out)
               /\ failed' = IF raised \/ ScaleAborted(out, scale) THEN "scale"
                             ELSE NoFailure
    /\ IF idx < Len(Scales) THEN idx' = idx + 1 /\ UNCHANGED mpc
       ELSE idx' = 0 /\ mpc' = "done"
    /\ UNCHANGED notDet
    /\ UNCHANGED <<PYZBAR_AVAILABLE, img, cpc, extracted_codes, contrib, log, cret>>

\* line 348, and line 92 when extract_codes_from_image made the call
MultiScaleReturn ==
    /\ mpc = "done"
    /\ mpc' = "idle"
    /\ IF cpc = "ms"
       THEN /\ extracted_codes' = extracted_codes \o ms_codes
            /\ contrib' = [contrib EXCEPT !.multiscale = Len(ms_codes)]
            /\ cpc' = "ret"
            /\ UNCHANGED cret
       ELSE /\ cret' = ms_codes
            /\ cpc' = "done_ms"
            /\ UNCHANGED <<extracted_codes, contrib>>
    /\ failed' = NoFailure
    /\ UNCHANGED reported
    /\ UNCHANGED notDet
    /\ UNCHANGED <<PYZBAR_AVAILABLE, img, idx, ms_codes, log>>

\* lines 96-97
ExtractCodesReturn ==
    /\ cpc = "ret"
    /\ cret' = extracted_codes
    /\ cpc' = "done"
    /\ failed' = NoFailure
    /\ UNCHANGED reported
    /\ UNCHANGED notDet
    /\ UNCHANGED <<PYZBAR_AVAILABLE, img, mpc, idx, extracted_codes, ms_codes, contrib, log>>

\* code_extractor_simple.extract_codes_from_image: always the empty list
ExtractCodesSimple ==
    /\ cpc = "idle"
    /\ cret' = <<>>
    /\ cpc' = "done_simple"
    /\ failed' = NoFailure
    /\ UNCHANGED reported
    /\ UNCHANGED notDet
    /\ UNCHANGED <<PYZBAR_AVAILABLE, img, mpc, idx, extracted_codes, ms_codes, contrib, log>>

\* the detector before any call
NoImage == [exists |-> FALSE, w |-> 0, h |-> 0, symbols |-> <<>>]
NoContrib == [direct |-> 0, variants |-> 0, multiscale |-> 0]

DetectorReady ==
    /\ cpc = "idle"
    /\ mpc = "idle"
    /\ idx = 0
    /\ extracted_codes = <<>>
    /\ ms_codes = <<>>
    /\ contrib = NoContrib
    /\ log = <<>>
    /\ cret = <<>>
    /\ reported = {}
    /\ failed = NoFailure

DetectorIdle ==
    /\ PYZBAR_AVAILABLE = TRUE
    /\ img = NoImage
    /\ DetectorReady

PureIdle ==
    /\ fn = "idle"
    /\ arg = <<>>
    /\ ret = <<>>

(***************************************************************************)
(* ocr_processor.extract_text_from_image, step by step.                    *)
(*                                                                         *)
(* ocr.out[i] is what the i-th attempt yields on the image: the text       *)
(* pytesseract returns, or no text when the attempt raises or cv2.imread   *)
(* returns None.                                                           *)
(***************************************************************************)
Recognized(text) == [kind |-> "text", text |-> text]
Raised == [kind |-> "raise", text |-> <<>>]
NotRead == [kind |-> "none", text |-> <<>>]

\* page segmentation modes in ascending order
psm_modes_sorted == <<6, 8, 11, 12, 13>>

\* psm_modes (line 57)
psm_modes == <<6, 8, 13, 11, 12>>

\* the attempts in the order of the code: PIL (24-39), OpenCV (42-54), then the
\* page segmentation modes (59-70)
PilAttempt == 1
CvAttempt == 2
PsmAttempt(i) == CvAttempt + i
NumAttempts == CvAttempt + Len(psm_modes)

\* the text of an attempt, empty when the attempt raised or read no image
TextOf(out) == IF out.kind = "text" THEN out.text ELSE <<>>

\* how an attempt reads the file and configures Tesseract: the page segmentation
\* mode given (none: the default configuration) and whether the whitelist is given
PilConfig == [reader |-> "PIL", psm |-> <<6>>, whitelist |-> TRUE]
CvConfig == [reader |-> "cv2", psm |-> <<>>, whitelist |-> FALSE]
PsmConfig(psm) == [reader |-> "PIL", psm |-> <<psm>>, whitelist |-> FALSE]

\* a test that also passes for an attempt that raised
HasTextOrRaised(out) == out.kind = "raise" \/ Strip(TextOf(out)) # <<>>

\* if text.strip(): the test of lines 34, 49 and 65
HasText(out) == Strip(TextOf(out)) # <<>>

\* lines 19-21: the check that the file exists
ExtractTextBegin ==
    /\ tpc = "idle"
    /\ IF ~ocr.exists
       THEN tpc' = "done" /\ tret' = <<>>
       ELSE tpc' = "pil" /\ UNCHANGED tret
    /\ UNCHANGED <<ocr, tidx, tried>>
    /\ UNCHANGED notText

\* lines 24-39: the attempt on the file opened with PIL
OcrWithPil ==
    /\ tpc = "pil"
    /\ IF HasText(ocr.out[PilAttempt])
       THEN tpc' = "done" /\ tret' = clean_ocr_text(TextOf(ocr.out[PilAttempt]))
       ELSE tpc' = "cv" /\ UNCHANGED tret
    /\ tried' = Append(tried, PilConfig)
    /\ UNCHANGED <<ocr, tidx>>
    /\ UNCHANGED notText

\* lines 42-54: the attempt on the file read with OpenCV
OcrWithOpenCv ==
    /\ tpc = "cv"
    /\ IF HasText(ocr.out[CvAttempt])
       THEN tpc' = "done" /\ tret' = clean_ocr_text(TextOf(ocr.out[CvAttempt])) /\ UNCHANGED tidx
       ELSE tpc' = "psm" /\ tidx' = 1 /\ UNCHANGED tret
    /\ tried' = Append(tried, CvConfig)
    /\ UNCHANGED ocr
    /\ UNCHANGED notText

\* lines 59-70: the attempt with one page segmentation mode
OcrWithPsm ==
    /\ tpc = "psm"
    /\ IF HasText(ocr.out[PsmAttempt(tidx)])
       THEN tpc' = "done" /\ tret' = clean_ocr_text(TextOf(ocr.out[PsmAttempt(tidx)]))
               /\ tidx' = 0
       ELSE IF tidx < Len(psm_modes)
       THEN tidx' = tidx + 1 /\ UNCHANGED <<tpc, tret>>
       ELSE tpc' = "none_found" /\ tidx' = 0 /\ UNCHANGED tret
    /\ tried' = Append(tried, PsmConfig(psm_modes[tidx]))
    /\ UNCHANGED ocr
    /\ UNCHANGED notText

\* lines 72-73: no attempt had text
ExtractTextNone ==
    /\ tpc = "none_found"
    /\ tret' = <<>>
    /\ tpc' = "done"
    /\ UNCHANGED <<ocr, tidx, tried>>
    /\ UNCHANGED notText

NoOcr == [exists |-> FALSE, out |-> [i \in 1..NumAttempts |-> Raised]]

TextReady ==
    /\ tpc = "idle"
    /\ tidx = 0
    /\ tret = <<>>
    /\ tried = <<>>

TextIdle ==
    /\ ocr = NoOcr
    /\ TextReady

(***************************************************************************)
(* image_processor: process_image, enhance_for_ocr, preprocess_for_codes.  *)
(*                                                                         *)
(* A path is [base, ext]: the two parts os.path.splitext gives, the base   *)
(* as the sequence of the name and the suffixes appended to it.  files     *)
(* maps each path that exists to "image" or "corrupt".                     *)
(***************************************************************************)
\* the suffix each function puts between base and extension (lines 40, 83, 112)
Suffix == [process_image |-> <<"_processed">>,
           enhance_for_ocr |-> <<"_enhanced">>,
           preprocess_for_codes |-> <<"_codes">>,
           enhance_for_code_detection |-> <<"_enhanced", "_codes">>,
           enhance_for_code_detection_simple |-> <<"_enhanced">>]

\* a preprocessing that saves its result under the name of its input
SamePath(path, suffix) == path

\* f"{base_path}{suffix}{ext}"
DerivedPath(path, suffix) == [base |-> path.base \o suffix, ext |-> path.ext]

\* cv2.imread: None unless the path is a file that decodes as an image
CanRead(fs, path) == path \in DOMAIN fs /\ fs[path] = "image"

\* the file system after a file is written
Written(fs, path) == [q \in DOMAIN fs \cup {path} |-> IF q = path THEN "image" ELSE fs[q]]

\* the ways a call can go: cv2.imread returns None; cv2.imread or a step of the
\* transformation raises; cv2.imwrite raises (always, for a path without an
\* extension: no writer is found), returns False without writing, or writes the file
Outcomes(fs, path) ==
    IF ~CanRead(fs, path) THEN {"unreadable", "read_raises"}
    ELSE {"read_raises", "step_raises", "write_raises"}
         \cup (IF path.ext = "" THEN {} ELSE {"write_fails", "written"})

\* one call of a preprocessing function: the path returned (image_path in the
\* except branch and when imread gives None, else the derived path, whatever
\* cv2.imwrite returned), the paths the call wrote to and the files afterwards
Preprocess(name, image_path) ==
    \E outcome \in Outcomes(files, image_path) :
        LET out_path == DerivedPath(image_path, Suffix[name])
        IN  /\ pcall' = [fn |-> name, path |-> image_path, outcome |-> outcome,
                       ret |-> IF outcome \in {"written", "write_fails"}
                               THEN out_path ELSE image_path,
                       wrote |-> IF outcome = "written" THEN {out_path} ELSE {}]
            /\ files' = IF outcome = "written" THEN Written(files, out_path) ELSE files

\* the longest chain of derived names followed
MaxDerived == 1

\* the paths a caller passes: the files on disk and one path that does not exist
MissingPath == [base |-> <<"missing">>, ext |-> ".png"]
CallPaths == {q \in DOMAIN files \cup {MissingPath} : Len(q.base) <= MaxDerived}

\* image_processor.process_image (lines 9-52)
ProcessImage ==
    /\ \E image_path \in CallPaths : Preprocess("process_image", image_path)
    /\ UNCHANGED notPre

\* image_processor.enhance_for_ocr (lines 54-90)
EnhanceForOcr ==
    /\ \E image_path \in CallPaths : Preprocess("enhance_for_ocr", image_path)
    /\ UNCHANGED notPre

\* image_processor.preprocess_for_codes (lines 92-119)
PreprocessForCodes ==
    /\ \E image_path \in CallPaths : Preprocess("preprocess_for_codes", image_path)
    /\ UNCHANGED notPre

\* code_extractor.enhance_for_code_detection (lines 354-394)
EnhanceForCodeDetection ==
    /\ \E image_path \in CallPaths : Preprocess("enhance_for_code_detection", image_path)
    /\ UNCHANGED notPre

\* code_extractor_simple.enhance_for_code_detection (lines 60-81)
EnhanceForCodeDetectionSimple ==
    /\ \E image_path \in CallPaths :
           Preprocess("enhance_for_code_detection_simple", image_path)
    /\ UNCHANGED notPre

NoCall == [fn |-> "idle", path |-> MissingPath, outcome |-> "idle", ret |-> MissingPath,
           wrote |-> {}]
NoFiles == <<>>

PreIdle ==
    /\ files = NoFiles
    /\ pcall = NoCall

(***************************************************************************)
(* models: BookkeepingRecord and RecordStorage.  Objects live in heap (a   *)
(* reference is an index into it); storage.records maps an id to a         *)
(* reference.                                                              *)
(***************************************************************************)
\* datetime.now(): the model keeps no clock
Now == "now"

\* BookkeepingRecord.__init__ with the defaults of its signature
BookkeepingRecord(record_id, filename, ocr_text, codes) ==
    [id |-> record_id, filename |-> filename, upload_date |-> Now,
     ocr_text |-> ocr_text, extracted_codes |-> codes,
     amount |-> FloatOf(<<"0", ".", "0">>), description |-> <<>>, category |-> <<>>,
     date |-> <<>>, notes |-> <<>>, processed_date |-> Now]

\* an update that leaves the attribute id alone
SetOtherAttributes(record, kwargs) ==
    [a \in DOMAIN record |-> IF a \in DOMAIN kwargs /\ a # "id" THEN kwargs[a] ELSE record[a]]

\* the loop of update_record: setattr for every key the object has as attribute
SetAttributes(record, kwargs) ==
    [a \in DOMAIN record |-> IF a \in DOMAIN kwargs THEN kwargs[a] ELSE record[a]]

\* RecordStorage.add_record: the heap is left alone, the key is the object's id
add_record(recs, h, ref) ==
    [k \in DOMAIN recs \cup {h[ref].id} |-> IF k = h[ref].id THEN ref ELSE recs[k]]

\* RecordStorage.get_record: the reference stored, 0 for None
get_record(recs, record_id) == IF record_id \in DOMAIN recs THEN recs[record_id] ELSE 0

\* RecordStorage.update_record: the value returned and the heap afterwards
update_record(recs, h, record_id, kwargs) ==
    IF record_id \notin DOMAIN recs THEN [ret |-> FALSE, heap |-> h]
    ELSE [ret |-> TRUE,
          heap |-> [h EXCEPT ![recs[record_id]] = SetAttributes(@, kwargs)]]

\* RecordStorage.delete_record: the value returned and the mapping afterwards
delete_record(recs, record_id) ==
    IF record_id \in DOMAIN recs
    THEN [ret |-> TRUE, records |-> [k \in DOMAIN recs \ {record_id} |-> recs[k]]]
    ELSE [ret |-> FALSE, records |-> recs]

\* the objects constructed in a run
MaxRecords == 2

\* the ids given to records, uuid4 strings in the program
IdNames == <<"r1", "r2", "r3", "r4">>
RecordIds == {IdNames[i] : i \in 1..MaxRecords}

\* the keyword arguments of a direct call of update_record: none, an attribute
\* that is a field, the attribute id, or a name the object does not have
UpdateKwargs ==
    {<<>>} \cup {[a \in {key} |-> value] : key \in {"id", "notes", "colour"}, value \in RecordIds}

StorageCall(op, key, ok, ref) == [op |-> op, key |-> key, ok |-> ok, ref |-> ref]
NoStorageCall == StorageCall("idle", "", FALSE, 0)

\* BookkeepingRecord(...) (lines 10-24)
Construct ==
    /\ Len(heap) < MaxRecords
    /\ \E record_id \in RecordIds :
           heap' = Append(heap, BookkeepingRecord(record_id, <<"f">>, <<>>, <<>>))
    /\ scall' = StorageCall("BookkeepingRecord", "", TRUE, Len(heap) + 1)
    /\ UNCHANGED <<records, notStore>>

\* storage.add_record(record) (lines 67-69)
AddRecord ==
    /\ \E ref \in 1..Len(heap) :
           /\ records' = add_record(records, heap, ref)
           /\ scall' = StorageCall("add_record", heap[ref].id, TRUE, ref)
    /\ UNCHANGED <<heap, notStore>>

\* storage.get_record(record_id) (lines 71-73)
GetRecord ==
    /\ \E record_id \in RecordIds :
           scall' = StorageCall("get_record", record_id, record_id \in DOMAIN records,
                                get_record(records, record_id))
    /\ UNCHANGED <<heap, records, notStore>>

\* storage.update_record(record_id, **kwargs) (lines 154-164)
UpdateRecord ==
    /\ \E record_id \in RecordIds, kwargs \in UpdateKwargs :
           LET r == update_record(records, heap, record_id, kwargs)
           IN  /\ heap' = r.heap
               /\ scall' = StorageCall("update_record", record_id, r.ret,
                                       get_record(records, record_id))
    /\ UNCHANGED <<records, notStore>>

\* storage.delete_record(record_id) (lines 166-171)
DeleteRecord ==
    /\ \E record_id \in RecordIds :
           LET r == delete_record(records, record_id)
           IN  /\ records' = r.records
               /\ scall' = StorageCall("delete_record", record_id, r.ret,
                                       get_record(records, record_id))
    /\ UNCHANGED <<heap, notStore>>

NoRecords == <<>>

StoreIdle ==
    /\ heap = <<>>
    /\ records = NoRecords
    /\ scall = NoStorageCall

(***************************************************************************)
(* routes: the request handlers.  A session is the set of keys it holds    *)
(* (the messages of flash(), which the templates consume, are left out);   *)
(* a request is handled in one step.                                       *)
(***************************************************************************)
\* app.config['ADMIN_SECRET'], the default of app.py line 30
ADMIN_SECRET ==
    <<"b", "o", "o", "k", "k", "e", "e", "p", "i", "n", "g", "-", "a", "d", "m", "i", "n",
      "-", "2", "0", "2", "5">>

Clients == {"c1", "c2"}

\* a login that accepts every secret
AnySecret(form_secret) == TRUE

\* request.form.get('secret', '').strip() == app.config['ADMIN_SECRET']
SecretMatches(form_secret) == Strip(form_secret) = ADMIN_SECRET

\* the test of login_required: 'admin_logged_in' in session
LoggedIn(sess) == "admin_logged_in" \in sess

\* filename.rsplit('.', 1)[1].lower() for the extensions of the model
LowerExtension == (".png" :> "png") @@ (".PNG" :> "png") @@ (".exe" :> "exe")

\* allowed_file(filename): an extension after the last dot, among the allowed ones
ALLOWED_EXTENSIONS == {"png", "jpg", "jpeg", "gif", "bmp", "tiff", "webp"}
allowed_file(filename) ==
    filename.ext # "" /\ LowerExtension[filename.ext] \in ALLOWED_EXTENSIONS

\* the names uuid4 gives to the saved uploads
UploadNames == <<"u1", "u2", "u3", "u4">>

\* the uploads saved in a run
MaxUploads == 1

\* os.remove(path)
Removed(fs, path) == [q \in DOMAIN fs \ {path} |-> fs[q]]

NoPath == [base |-> <<>>, ext |-> ""]

\* what a handler did with a request; the last five fields are those of login
\* and upload
Request(client, route, method, body) ==
    [client |-> client, route |-> route, method |-> method, body |-> body,
     secret |-> <<>>, saved |-> NoPath, processed |-> NoPath, stored |-> FALSE,
     remove_failed |-> "none"]

\* the branch of login_required that turns the request away (lines 23-25)
TurnedAway(client, route, method) ==
    /\ ~LoggedIn(session[client])
    /\ req' = Request(client, route, method, FALSE)
    /\ UNCHANGED <<session, files, storeVars>>

\* index (lines 30-35)
Index ==
    /\ \E client \in Clients : req' = Request(client, "index", "GET", TRUE)
    /\ UNCHANGED <<session, storeVars, notWeb>>

\* the secrets posted: the right one, the right one with whitespace around it,
\* a wrong one and none
PostedSecrets == {ADMIN_SECRET, <<" ">> \o ADMIN_SECRET \o <<"\n">>, <<"x">>, <<>>}

\* login (lines 37-51)
Login ==
    /\ \E client \in Clients :
          \/ /\ req' = Request(client, "login", "GET", TRUE)
             /\ UNCHANGED session
          \/ \E form_secret \in PostedSecrets :
               /\ req' = [Request(client, "login", "POST", TRUE) EXCEPT !.secret = form_secret]
               /\ session' =
                     IF SecretMatches(form_secret)
                     THEN [session EXCEPT ![client] = @ \cup {"admin_logged_in", "login_time"}]
                     ELSE session
    /\ UNCHANGED <<storeVars, notWeb>>

\* logout (lines 53-58)
Logout ==
    /\ \E client \in Clients :
           /\ req' = Request(client, "logout", "GET", TRUE)
           /\ session' = [session EXCEPT ![client] = {}]
    /\ UNCHANGED <<storeVars, notWeb>>

\* what is left alone by every handler
notRoutes == <<pcall, pureVars, detVars, textVars>>

\* a wrapped handler that only reads the storage
ReadOnly(route) ==
    \E client \in Clients :
        \/ TurnedAway(client, route, "GET")
        \/ /\ LoggedIn(session[client])
           /\ req' = Request(client, route, "GET", TRUE)
           /\ UNCHANGED <<session, files, storeVars>>

\* dashboard (lines 60-69)
Dashboard ==
    /\ ReadOnly("dashboard")
    /\ UNCHANGED notRoutes

\* records (lines 139-180)
Records ==
    /\ ReadOnly("records")
    /\ UNCHANGED notRoutes

\* view_record (lines 182-191)
ViewRecord ==
    /\ ReadOnly("view_record")
    /\ UNCHANGED notRoutes

\* export_records (lines 238-263)
ExportRecords ==
    /\ ReadOnly("export_records")
    /\ UNCHANGED notRoutes

\* the amounts posted by the edit form: a number and a text that is none
PostedAmounts == {<<"1">>, <<"x">>}

\* updates of edit_record (lines 206-212)
Updates(amount) ==
    [a \in {"amount", "description", "category", "date", "notes"} |->
        IF a = "amount" THEN FloatOf(amount) ELSE <<>>]

\* edit_record (lines 193-225)
EditRecord ==
    /\ \E client \in Clients :
          \/ \E method \in {"GET", "POST"} : TurnedAway(client, "edit_record", method)
          \/ /\ LoggedIn(session[client])
             /\ \/ /\ req' = Request(client, "edit_record", "GET", TRUE)
                   /\ UNCHANGED heap
                \/ /\ req' = Request(client, "edit_record", "POST", TRUE)
                   /\ \E record_id \in RecordIds, amount \in PostedAmounts :
                         heap' = IF get_record(records, record_id) # 0 /\ IsFloat(amount)
                                 THEN update_record(records, heap, record_id,
                                                    Updates(amount)).heap
                                 ELSE heap
             /\ UNCHANGED <<session, files, records, scall>>
    /\ UNCHANGED notRoutes

\* delete_record of routes (lines 227-236)
DeleteRecordRoute ==
    /\ \E client \in Clients :
          \/ TurnedAway(client, "delete_record", "POST")
          \/ /\ LoggedIn(session[client])
             /\ req' = Request(client, "delete_record", "POST", TRUE)
             /\ \E record_id \in RecordIds :
                   records' = delete_record(records, record_id).records
             /\ UNCHANGED <<session, files, heap, scall>>
    /\ UNCHANGED notRoutes

\* the files posted to upload: none, one without a name, one with an extension
\* that is not allowed, an image and a file that is no image
PngName == [base |-> <<"f">>, ext |-> ".png"]
PostedFiles ==
    {[present |-> FALSE, filename |-> NoPath, content |-> "image"],
     [present |-> TRUE, filename |-> NoPath, content |-> "image"],
     [present |-> TRUE, filename |-> [base |-> <<"f">>, ext |-> ".exe"], content |-> "image"],
     [present |-> TRUE, filename |-> PngName, content |-> "image"],
     [present |-> TRUE, filename |-> PngName, content |-> "corrupt"]}

\* how the two calls of os.remove go: both succeed, the first raises OSError,
\* the second does
Removals == {"removed", "first_raises", "second_raises"}

\* the part of upload after the checks (lines 86-133): save, process_image, OCR,
\* codes, record, storage, removal of the two files
SaveAndProcess(client, file) ==
    LET filepath == [base |-> <<UploadNames[Len(heap) + 1]>>, ext |-> file.filename.ext]
        onDisk == [Written(files, filepath) EXCEPT ![filepath] = file.content]
    IN  \/ /\ req' = Request(client, "upload", "POST", TRUE)
           /\ UNCHANGED <<files, storeVars>>
        \/ \E outcome \in Outcomes(onDisk, filepath), removal \in Removals :
             LET out_path == DerivedPath(filepath, Suffix.process_image)
                 processed_image_path ==
                     IF outcome \in {"written", "write_fails"} THEN out_path ELSE filepath
                 processed == IF outcome = "written" THEN Written(onDisk, out_path) ELSE onDisk
                 record == BookkeepingRecord(IdNames[Len(heap) + 1], file.filename,
                                             <<"a">>, <<>>)
                 second == processed_image_path # filepath
                 missing == processed_image_path \notin DOMAIN processed
             IN  /\ heap' = Append(heap, record)
                 /\ records' = add_record(records, heap', Len(heap'))
                 /\ scall' = StorageCall("add_record", record.id, TRUE, Len(heap'))
                 /\ files' =
                       IF removal = "first_raises" THEN processed
                       ELSE IF ~second \/ missing \/ removal = "second_raises"
                            THEN Removed(processed, filepath)
                            ELSE Removed(Removed(processed, filepath), processed_image_path)
                 /\ req' = [Request(client, "upload", "POST", TRUE) EXCEPT
                               !.saved = filepath,
                               !.processed = processed_image_path,
                               !.stored = TRUE,
                               !.remove_failed =
                                   IF removal = "first_raises" THEN "upload"
                                   ELSE IF second /\ (missing \/ removal = "second_raises")
                                        THEN "processed" ELSE "none"]

\* upload (lines 71-137)
Upload ==
    /\ \E client \in Clients :
          \/ \E method \in {"GET", "POST"} : TurnedAway(client, "upload", method)
          \/ /\ LoggedIn(session[client])
             /\ \/ /\ req' = Request(client, "upload", "GET", TRUE)
                   /\ UNCHANGED <<files, storeVars>>
                \/ \E file \in PostedFiles :
                     IF ~file.present \/ file.filename = NoPath
                        \/ ~allowed_file(file.filename)
                     THEN /\ req' = Request(client, "upload", "POST", TRUE)
                          /\ UNCHANGED <<files, storeVars>>
                     ELSE /\ Len(heap) < MaxUploads
                          /\ SaveAndProcess(client, file)
             /\ UNCHANGED session
    /\ UNCHANGED notRoutes

NoRequest == Request("", "idle", "", FALSE)

WebIdle ==
    /\ session = [client \in Clients |-> {}]
    /\ req = NoRequest

(***************************************************************************)
(* Specification SpecClean: clean_ocr_text applied to a text, then to its  *)
(* own output.                                                             *)
(***************************************************************************)
MaxTextLen == 5

\* a word character, a letter and the digit it is mistaken for, two kinds of
\* whitespace, an artifact the allowlist rejects (apostrophe) and an allowed
\* punctuation mark
CleanAlphabet == {"a", "O", "0", " ", "\n", "'", "-"}

InitClean ==
    /\ DetectorIdle /\ TextIdle /\ PreIdle /\ StoreIdle /\ WebIdle
    /\ fn = "idle"
    /\ arg \in SeqsUpTo(CleanAlphabet, MaxTextLen)
    /\ ret = <<>>

\* the caller cleans the text (first call), or cleans the cleaned text again
CallCleanOcrText ==
    /\ Len(ret) < 2
    /\ fn' = "clean_ocr_text"
    /\ ret' = Append(ret, clean_ocr_text(IF ret = <<>> THEN arg ELSE ret[Len(ret)]))
    /\ UNCHANGED <<arg, notPure>>

NextClean == CallCleanOcrText

SpecClean == InitClean /\ [][NextClean]_vars

\* C2: clean_ocr_text is idempotent: cleaning a cleaned text changes nothing.
C2_Idempotent == Len(ret) = 2 => ret[2] = ret[1]

\* the characters of s other than the space
NonSpace(s) == SelectSeq(s, LAMBDA c : c # " ")

\* s can be obtained from t by deleting characters of t
RECURSIVE IsSubsequence(_, _)
IsSubsequence(s, t) ==
    IF s = <<>> THEN TRUE
    ELSE IF t = <<>> THEN FALSE
    ELSE IF Head(s) = Head(t) THEN IsSubsequence(Tail(s), Tail(t))
    ELSE IsSubsequence(s, Tail(t))

\* the text given to the i-th call of clean_ocr_text
CleanInput(i) == IF i = 1 THEN arg ELSE ret[i - 1]

MaxTokens == 2

\* "$1", "1.11 USD", "11-11-11", "a@b.co", "111-111-1111", "INV#111", " ", "1"
FieldTokens == {
    <<"$", "1">>,
    <<"1", ".", "1", "1", " ", "U", "S", "D">>,
    <<"1", "1", "-", "1", "1", "-", "1", "1">>,
    <<"a", "@", "b", ".", "c", "o">>,
    <<"1", "1", "1", "-", "1", "1", "1", "-", "1", "1", "1", "1">>,
    <<"I", "N", "V", "#", "1", "1", "1">>,
    <<" ">>,
    <<"1">> }

RECURSIVE Flatten(_)
Flatten(ss) == IF ss = <<>> THEN <<>> ELSE Head(ss) \o Flatten(Tail(ss))

FieldTexts == {Flatten(ts) : ts \in SeqsUpTo(FieldTokens, MaxTokens)}

\* the text of a scanned invoice line
InvoiceExample ==
    <<"I", "n", "v", "o", "i", "c", "e", " ", "#", "I", "N", "V", "-", "2", "0", "2",
      "4", "-", "0", "0", "1", " ", "T", "o", "t", "a", "l", " ", "$", "1", "2", "3",
      ".", "4", "5", " ", "d", "u", "e", " ", "0", "3", "/", "1", "5", "/", "2", "0",
      "2", "4", " ", "c", "o", "n", "t", "a", "c", "t", " ", "a", "@", "b", ".", "c",
      "o", "m">>

InitFields ==
    /\ DetectorIdle /\ TextIdle /\ PreIdle /\ StoreIdle /\ WebIdle
    /\ fn = "idle"
    /\ arg \in FieldTexts \cup {InvoiceExample}
    /\ ret = <<>>

CallExtractStructuredData ==
    /\ fn = "idle"
    /\ fn' = "extract_structured_data"
    /\ \E d \in extract_structured_data(arg) : ret' = <<d>>
    /\ UNCHANGED <<arg, notPure>>

NextFields == CallExtractStructuredData

SpecFields == InitFields /\ [][NextFields]_vars

HasDuplicates(q) == \E i, j \in 1..Len(q) : i # j /\ q[i] = q[j]

\* C10: each of the five lists returned by extract_structured_data holds no string
\* twice, and for the empty text all five lists are empty.
C10_NoDuplicates ==
    fn = "extract_structured_data" =>
        /\ \A f \in FieldNames : ~HasDuplicates(ret[1][f])
        /\ arg = <<>> => \A f \in FieldNames : ret[1][f] = <<>>

\* a text in which two patterns of one field matched the same substring, and one
\* in which a substring occurs twice
C10_Witness ==
    /\ fn = "extract_structured_data"
    /\ HasDuplicates(RawMatches(arg).dates)
    /\ HasDuplicates(RawMatches(arg).amounts)

IsInvoiceCall ==
    /\ fn = "extract_structured_data"
    /\ arg = InvoiceExample

\* C11: on the invoice line 'Invoice #INV-2024-001 Total $123.45 due 03/15/2024
\* contact a@b.com' the amounts contain '$123.45', the dates '03/15/2024', the
\* emails 'a@b.com' and the invoice numbers 'INV-2024-001'.
C11_InvoiceExample ==
    IsInvoiceCall =>
        /\ <<"$", "1", "2", "3", ".", "4", "5">> \in Range(ret[1].amounts)
        /\ <<"0", "3", "/", "1", "5", "/", "2", "0", "2", "4">> \in Range(ret[1].dates)
        /\ <<"a", "@", "b", ".", "c", "o", "m">> \in Range(ret[1].emails)
        /\ <<"I", "N", "V", "-", "2", "0", "2", "4", "-", "0", "0", "1">> \in Range(ret[1].invoice_numbers)

\* the call on the invoice line has returned, with nothing found as a phone number
C11_Witness ==
    /\ IsInvoiceCall
    /\ Len(ret) = 1
    /\ ret[1].phone_numbers = <<>>
    /\ ret[1].emails # <<>>

(***************************************************************************)
(* Specification SpecQr: the interpretation of QR payloads.                *)
(***************************************************************************)
MaxWifiFields == 2

\* the payload of the specification's example: WIFI:T:WPA;S:MyNet;P:secret;H:false;
WifiExample ==
    <<"W", "I", "F", "I", ":", "T", ":", "W", "P", "A", ";", "S", ":", "M", "y", "N",
      "e", "t", ";", "P", ":", "s", "e", "c", "r", "e", "t", ";", "H", ":", "f", "a",
      "l", "s", "e", ";">>

V_WPA == <<"W", "P", "A">>
V_MyNet == <<"M", "y", "N", "e", "t">>
V_secret == <<"s", "e", "c", "r", "e", "t">>
V_false == <<"f", "a", "l", "s", "e">>

\* key:value; fields with the four recognised keys and an unknown one
WifiKeys == {"T", "S", "P", "H", "X"}
WifiValues == {V_WPA, <<"a", ":", "b">>}
WifiFieldsOf(payloadFields) ==
    Flatten([i \in 1..Len(payloadFields) |->
                <<payloadFields[i][1], ":">> \o payloadFields[i][2] \o <<";">>])
WifiPayloads ==
    {Prefix.WIFI \o WifiFieldsOf(fs) : fs \in SeqsUpTo(WifiKeys \X WifiValues, MaxWifiFields)}

\* payloads of every shape extract_qr_info tells apart: each prefix, or none,
\* followed by a number, coordinates, a word, vCard lines or another prefix
QrBodies ==
    {<<>>, <<"1">>, <<"1", ",", "2">>, <<"1", ",", "x">>, <<"a">>, <<"t", "r", "u", "e">>,
     <<"\n", "N", ":", "a", "\n", "E", "N", "D", ":", "V", "C", "A", "R", "D">>,
     <<"\n", "T", "Y", "P", "E", ":", "x", "\n", "E", "N", "D", ":", "V", "C", "A", "R", "D">>,
     <<"t", "e", "l", ":", "1">>}
QrPrefixes ==
    {<<>>, Prefix.http, <<"H", "T", "T", "P", "S", ":", "/", "/">>,
     Prefix.WIFI, Prefix.VCARD, Prefix.mailto, Prefix.tel, Prefix.sms, Prefix.geo}
ShapedPayloads == {pfx \o body : pfx \in QrPrefixes, body \in QrBodies}

QrPayloads == WifiPayloads \cup {WifiExample} \cup ShapedPayloads

InitQr ==
    /\ DetectorIdle /\ TextIdle /\ PreIdle /\ StoreIdle /\ WebIdle
    /\ fn = "idle"
    /\ arg \in {<<d, Sym.QRCODE>> : d \in QrPayloads}
    /\ ret = <<>>

CallExtractQrInfo ==
    /\ fn = "idle"
    /\ arg[2] = Sym.QRCODE
    /\ fn' = "extract_qr_info"
    /\ ret' = <<extract_qr_info(arg[1])>>
    /\ UNCHANGED <<arg, notPure>>

CallExtractCodeInfo ==
    /\ fn = "idle"
    /\ fn' = "extract_code_info"
    /\ ret' = <<extract_code_info(arg[1], arg[2])>>
    /\ UNCHANGED <<arg, notPure>>

NextQr == CallExtractQrInfo \/ CallExtractCodeInfo

SpecQr == InitQr /\ [][NextQr]_vars

\* the dict d holds v under the key k
Has(d, k, v) == k \in DOMAIN d /\ d[k] = v

\* C3: the payload WIFI:T:WPA;S:MyNet;P:secret;H:false; is interpreted as type wifi
\* with security WPA, ssid MyNet, password secret and hidden false.
C3_WifiExample ==
    (fn = "extract_qr_info" /\ arg[1] = WifiExample) =>
        /\ Has(ret[1], Key.type, TypeName.wifi)
        /\ Has(ret[1], Key.security, V_WPA)
        /\ Has(ret[1], Key.ssid, V_MyNet)
        /\ Has(ret[1], Key.password, V_secret)
        /\ Has(ret[1], Key.hidden, V_false)

QrTypes ==
    {TypeName.url, TypeName.wifi, TypeName.vcard, TypeName.email, TypeName.phone,
     TypeName.sms, TypeName.location, TypeName.json, TypeName.text}

\* the type of the first rule a payload matches
FirstMatchingType(qr_data) ==
    IF StartsWith(LowerStr(qr_data), Prefix.http)
           \/ StartsWith(LowerStr(qr_data), Prefix.https) THEN TypeName.url
    ELSE IF StartsWith(qr_data, Prefix.WIFI) THEN TypeName.wifi
    ELSE IF StartsWith(qr_data, Prefix.VCARD) THEN TypeName.vcard
    ELSE IF StartsWith(qr_data, Prefix.mailto) THEN TypeName.email
    ELSE IF StartsWith(qr_data, Prefix.tel) THEN TypeName.phone
    ELSE IF StartsWith(qr_data, Prefix.sms) THEN TypeName.sms
    ELSE IF StartsWith(qr_data, Prefix.geo) THEN TypeName.location
    ELSE IF JsonLoads(qr_data).ok THEN TypeName.json
    ELSE TypeName.text

\* C13: the type of the interpretation of a QR payload is one of url, wifi, vcard,
\* email, phone, sms, location, json, text, the one of the first rule the payload
\* matches, whatever follows the prefix.
C13_TypeByFirstRule ==
    fn = "extract_qr_info" =>
        /\ Key.type \in DOMAIN ret[1]
        /\ ret[1][Key.type] \in QrTypes
        /\ ret[1][Key.type] = FirstMatchingType(arg[1])

WifiRecognized == {<<"T">>, <<"S">>, <<"P">>, <<"H">>}

\* the key:value fields that follow the prefix of a WIFI: payload
WifiFieldsIn(qr_data) ==
    {SplitOnce(part, ":") :
        part \in {f \in Range(Split(Slice(qr_data, Len(Prefix.WIFI), Len(qr_data)), ";")) :
                     Contains(f, ":")}}

\* C15: a key:value field of a WIFI: payload whose key is not T, S, P or H is in
\* the interpretation under its own key, with its value.
C15_UnknownKeysKept ==
    (fn = "extract_qr_info" /\ StartsWith(arg[1], Prefix.WIFI)) =>
        \A field \in WifiFieldsIn(arg[1]) :
            field[1] \notin WifiRecognized => Has(ret[1], field[1], field[2])

\* C21: for a geo: payload latitude and longitude are set both or neither; when
\* a coordinate is missing or is no number neither is present, and the type is
\* location.
C21_BothOrNeither ==
    (fn = "extract_qr_info" /\ StartsWith(arg[1], Prefix.geo)) =>
        LET coords == Split(Slice(arg[1], 4, Len(arg[1])), ",")
            valid == Len(coords) >= 2 /\ IsFloat(coords[1]) /\ IsFloat(coords[2])
        IN  /\ Has(ret[1], Key.type, TypeName.location)
            /\ Key.latitude \in DOMAIN ret[1] <=> Key.longitude \in DOMAIN ret[1]
            /\ ~valid => Key.latitude \notin DOMAIN ret[1]

(***************************************************************************)
(* Specification SpecBarcode: the interpretation of barcode payloads.      *)
(***************************************************************************)
MaxShortLen == 2

AllTypes == ProductTypes \cup {Sym.CODE128, Sym.CODE39}

\* every 13-character and 12-character payload over two digits, and short
\* payloads with and without a non-digit, under every symbology
BarcodeInputs ==
    {<<d, Sym.EAN13>> : d \in [1..13 -> {"0", "1"}]}
        \cup {<<d, t>> : d \in [1..12 -> {"0", "1"}], t \in {Sym.UPCA, Sym.EAN13}}
        \cup (SeqsUpTo({"0", "x"}, MaxShortLen) \X AllTypes)

InitBarcode ==
    /\ DetectorIdle /\ TextIdle /\ PreIdle /\ StoreIdle /\ WebIdle
    /\ fn = "idle"
    /\ arg \in BarcodeInputs
    /\ ret = <<>>

CallExtractBarcodeInfo ==
    /\ fn = "idle"
    /\ fn' = "extract_barcode_info"
    /\ ret' = <<extract_barcode_info(arg[1], arg[2])>>
    /\ UNCHANGED <<arg, notPure>>

CallExtractCode128Info ==
    /\ fn = "idle"
    /\ arg[2] = Sym.CODE128
    /\ fn' = "extract_code128_info"
    /\ ret' = <<extract_code128_info(arg[1])>>
    /\ UNCHANGED <<arg, notPure>>

NextBarcode == CallExtractBarcodeInfo \/ CallExtractCode128Info \/ CallExtractCodeInfo

SpecBarcode == InitBarcode /\ [][NextBarcode]_vars

IsEan13Call ==
    /\ fn = "extract_barcode_info"
    /\ arg[2] = Sym.EAN13
    /\ Len(arg[1]) = 13
    /\ IsDigitStr(arg[1])

\* C8: a 13-digit EAN13 payload p is split into country_code = p[0..2],
\* manufacturer_code = p[3..7], product_code = p[8..11] and check_digit = p[12], and
\* the four subfields concatenated in that order give p back.
C8_Ean13Split ==
    IsEan13Call =>
        /\ Has(ret[1], Key.country_code, SubSeq(arg[1], 1, 3))
        /\ Has(ret[1], Key.manufacturer_code, SubSeq(arg[1], 4, 8))
        /\ Has(ret[1], Key.product_code, SubSeq(arg[1], 9, 12))
        /\ Has(ret[1], Key.check_digit, SubSeq(arg[1], 13, 13))
        /\ ret[1][Key.country_code] \o ret[1][Key.manufacturer_code]
               \o ret[1][Key.product_code] \o ret[1][Key.check_digit] = arg[1]

\* an EAN13 payload whose digits differ across each cut
C8_Witness ==
    /\ IsEan13Call
    /\ arg[1][3] # arg[1][4]
    /\ arg[1][8] # arg[1][9]
    /\ arg[1][12] # arg[1][13]
    /\ DOMAIN ret[1] = {Key.content, Key.barcode_type, Key.length, Key.is_product_code,
                        Key.country_code, Key.manufacturer_code, Key.product_code,
                        Key.check_digit}

IsGenericCall ==
    /\ fn = "extract_code_info"
    /\ arg[2] \notin {Sym.QRCODE, Sym.EAN13, Sym.EAN8, Sym.UPCA, Sym.UPCE}

\* C16: for CODE128 and for any unrecognized symbology the interpretation holds a
\* classification of the payload (numeric, alphanumeric, or none) and both flags
\* is_url and is_email.
C16_GenericInfo ==
    IsGenericCall =>
        /\ Key.is_numeric \in DOMAIN ret[1]
        /\ Key.type \in DOMAIN ret[1] =>
               ret[1][Key.type] \in {TypeName.numeric, TypeName.alphanumeric}
        /\ Key.is_url \in DOMAIN ret[1]
        /\ Key.is_email \in DOMAIN ret[1]

SubfieldKeys ==
    {Key.country_code, Key.manufacturer_code, Key.product_code, Key.check_digit}

\* a payload made of digits only (one digit at least, as every product symbology has)
OnlyDigits(payload) == payload # <<>> /\ \A i \in 1..Len(payload) : payload[i] \in Digits

\* C17: for EAN13, EAN8, UPCA and UPCE is_product_code is set, to true, exactly
\* when the payload consists of digits only, whatever its length; an EAN13 payload
\* of 13 digits has the four EAN13 subfields, a UPCA payload of 12 digits has
\* manufacturer_code = first 6, product_code = next 5 and check_digit = last 1,
\* and every other symbology and length has no subfield.
C17_ProductCodes ==
    fn = "extract_barcode_info" =>
        LET payload == arg[1]
            symbology == arg[2]
            subfields == DOMAIN ret[1] \cap SubfieldKeys
        IN  /\ symbology \in {Sym.EAN13, Sym.EAN8, Sym.UPCA, Sym.UPCE} =>
                   /\ OnlyDigits(payload) <=> Has(ret[1], Key.is_product_code, TRUE)
                   /\ ~OnlyDigits(payload) => Key.is_product_code \notin DOMAIN ret[1]
            /\ IF symbology = Sym.EAN13 /\ Len(payload) = 13 /\ OnlyDigits(payload)
               THEN subfields = SubfieldKeys
               ELSE IF symbology = Sym.UPCA /\ Len(payload) = 12 /\ OnlyDigits(payload)
               THEN /\ subfields = SubfieldKeys \ {Key.country_code}
                    /\ ret[1][Key.manufacturer_code] = SubSeq(payload, 1, 6)
                    /\ ret[1][Key.product_code] = SubSeq(payload, 7, 11)
                    /\ ret[1][Key.check_digit] = SubSeq(payload, 12, 12)
               ELSE subfields = {}

\* a UPCA payload of 12 digits that differ across each cut
C17_Witness ==
    /\ fn = "extract_barcode_info"
    /\ arg[2] = Sym.UPCA
    /\ Len(arg[1]) = 12
    /\ arg[1][6] # arg[1][7]
    /\ arg[1][11] # arg[1][12]
    /\ Has(ret[1], Key.is_product_code, TRUE)
    /\ Key.manufacturer_code \in DOMAIN ret[1]

(***************************************************************************)
(* Specification SpecCodes: extract_codes_from_image and the placeholder   *)
(* of code_extractor_simple on pictures with up to MaxSymbols symbols.     *)
(***************************************************************************)
MaxSymbols == 2

\* the picture of SpecCodes and the place of its i-th symbol
CodesWidth == 2 * (MaxSymbols + 1)
SlotRect(i) == [left |-> 2 * (i - 1), top |-> 0, width |-> 2, height |-> 2]

SymbolKinds ==
    {[type |-> Sym.QRCODE, text |-> <<"a">>, valid |-> TRUE],
     [type |-> Sym.QRCODE, text |-> <<"b">>, valid |-> TRUE],
     [type |-> Sym.CODE39, text |-> <<"a">>, valid |-> TRUE],
     [type |-> Sym.QRCODE, text |-> <<"x">>, valid |-> FALSE]}

Placed(kinds) ==
    [i \in 1..Len(kinds) |->
        [type |-> kinds[i].type, text |-> kinds[i].text, valid |-> kinds[i].valid,
         rect |-> SlotRect(i)]]

CodeImages ==
    {[exists |-> e, w |-> CodesWidth, h |-> 2, symbols |-> Placed(kinds)] :
        e \in BOOLEAN, kinds \in SeqsUpTo(SymbolKinds, MaxSymbols)}

InitCodes ==
    /\ PureIdle /\ TextIdle /\ PreIdle /\ StoreIdle /\ WebIdle
    /\ PYZBAR_AVAILABLE \in BOOLEAN
    /\ img \in CodeImages
    /\ DetectorReady

NextCodes ==
    \/ ExtractCodesBegin
    \/ DirectDecode
    \/ ReadForVariants
    \/ DecodeVariant
    \/ MultiScaleBegin
    \/ DecodeScale
    \/ MultiScaleReturn
    \/ ExtractCodesReturn
    \/ ExtractCodesSimple

SpecCodes == InitCodes /\ [][NextCodes]_vars

NoSharedData(codes) ==
    \A i, j \in 1..Len(codes) : i # j => codes[i].data # codes[j].data

\* C1: the list extract_codes_from_image returns has no two elements with the
\* same decoded text, whichever strategy produced them.
C1_NoDuplicateData == cpc = "done" => NoSharedData(cret)

Contributed(c) == {k \in DOMAIN c : c[k] > 0}

\* C5: the preprocessed variants are attempted only if the direct decode
\* contributed no codes, multi-scale detection only if neither the direct decode
\* nor the variants contributed codes, and the codes of a returned list come from
\* one strategy only.
C5_EarlyStopping ==
    /\ (cpc \in {"cv", "variant"} \/ "variants" \in Range(log)) => contrib.direct = 0
    /\ (cpc = "ms" \/ "multiscale" \in Range(log)) =>
           contrib.direct = 0 /\ contrib.variants = 0
    /\ cpc = "done" =>
           /\ Cardinality(Contributed(contrib)) <= 1
           /\ Len(cret) = contrib.direct + contrib.variants + contrib.multiscale
           /\ cret # <<>> => Cardinality(Contributed(contrib)) = 1

\* the variants found two codes after the direct decode found none, and
\* multi-scale detection was skipped
C5_Witness ==
    /\ cpc = "done"
    /\ "variants" \in Range(log)
    /\ "multiscale" \notin Range(log)
    /\ contrib.variants = 2
    /\ Len(cret) = 2

\* C6: without the decoding backend extract_codes_from_image returns the empty
\* list and attempts no strategy (no image is opened, no variant built, no
\* multi-scale detection); the placeholder module always returns the empty list.
C6_BackendUnavailable ==
    /\ ~PYZBAR_AVAILABLE =>
           /\ cpc \in {"idle", "done", "done_simple"}
           /\ log = <<>>
           /\ cret = <<>>
    /\ cpc = "done_simple" => cret = <<>>

\* the call returned on a file that exists and shows two symbols, without the backend
C6_Witness ==
    /\ ~PYZBAR_AVAILABLE
    /\ cpc = "done"
    /\ img.exists
    /\ Len(img.symbols) = 2

\* C12: a symbol whose bytes cannot be decoded becomes an element with the data
\* 'Error decoding', and every other symbol of a batch the decoder reported is in
\* the returned list.
C12_BatchNotAborted ==
    /\ \A i \in 1..Len(img.symbols) :
           ~img.symbols[i].valid =>
               process_decoded_code(img.symbols[i]).data = ErrorDecoding
    /\ cpc = "done" =>
           \A text \in reported : \E j \in 1..Len(cret) : cret[j].data = text

(***************************************************************************)
(* Specification SpecScale: multi_scale_detection on pictures of up to     *)
(* MaxDim pixels with one symbol.                                          *)
(***************************************************************************)
MaxDim == 5

ScaleImages ==
    {[exists |-> TRUE, w |-> w, h |-> 2,
      symbols |-> <<[type |-> Sym.QRCODE, text |-> <<"a">>, valid |-> v,
                     rect |-> [left |-> l, top |-> 0, width |-> wd, height |-> 2]]>>] :
        w \in 2..MaxDim, l \in 0..MaxDim, wd \in 1..MaxDim, v \in BOOLEAN}

InitScale ==
    /\ PureIdle /\ TextIdle /\ PreIdle /\ StoreIdle /\ WebIdle
    /\ PYZBAR_AVAILABLE \in BOOLEAN
    /\ img \in {i \in ScaleImages : i.symbols[1].rect.left + i.symbols[1].rect.width <= i.w}
    /\ DetectorReady

NextScale ==
    \/ CallMultiScale
    \/ MultiScaleBegin
    \/ DecodeScale
    \/ MultiScaleReturn

SpecScale == InitScale /\ [][NextScale]_vars

Abs(n) == IF n < 0 THEN -n ELSE n

RectFields == {"left", "top", "width", "height"}

\* the code as scale 1.0 detects it on the unscaled picture
AtScaleOne(symbol) == process_decoded_code(symbol)

\* C9: a rectangle or polygon coordinate reported after remapping from the scale
\* 0.5, 1.5 or 2.0 is within 1 pixel of the coordinate of the same code detected
\* at scale 1.0.
C9_RemapWithinOne ==
    cpc = "done_ms" =>
        \A i \in 1..Len(cret) :
            cret[i].detection_scale # 10 =>
                LET one == AtScaleOne(img.symbols[1])
                IN  /\ \A f \in RectFields : Abs(cret[i].rect[f] - one.rect[f]) <= 1
                    /\ \A c \in 1..Len(one.polygon) : \A d \in 1..2 :
                           Abs(cret[i].polygon[c][d] - one.polygon[c][d]) <= 1

(***************************************************************************)
(* Specification SpecText: extract_text_from_image on a file whose OCR     *)
(* attempts yield any of a few texts.                                      *)
(***************************************************************************)
\* what pytesseract can return: blank, a character clean_ocr_text deletes, a word
OcrTexts == {<<" ">>, <<"'">>, <<"a", "\n">>}

\* the whitelist of line 31 has no apostrophe: the PIL attempt yields only
\* characters clean_ocr_text keeps
PilTexts == {t \in OcrTexts : \A i \in 1..Len(t) : KeptByClean(t[i])}

AttemptOutcomes(i) ==
    IF i = PilAttempt THEN {Raised} \cup {Recognized(t) : t \in PilTexts}
    ELSE IF i = CvAttempt THEN {Raised, NotRead} \cup {Recognized(t) : t \in OcrTexts}
    ELSE {Raised} \cup {Recognized(t) : t \in OcrTexts}

InitText ==
    /\ PureIdle /\ DetectorIdle /\ PreIdle /\ StoreIdle /\ WebIdle
    /\ \/ ocr = NoOcr
       \/ \E out \in [1..NumAttempts -> AttemptOutcomes(CvAttempt)] :
            /\ \A i \in 1..NumAttempts : out[i] \in AttemptOutcomes(i)
            /\ ocr = [exists |-> TRUE, out |-> out]
    /\ TextReady

NextText ==
    \/ ExtractTextBegin
    \/ OcrWithPil
    \/ OcrWithOpenCv
    \/ OcrWithPsm
    \/ ExtractTextNone

SpecText == InitText /\ [][NextText]_vars

Cleaned(out) == clean_ocr_text(TextOf(out))

WithCleanedText == {i \in 1..NumAttempts : Cleaned(ocr.out[i]) # <<>>}

\* C4: extract_text_from_image returns the cleaned text of the first attempt
\* whose cleaned text is not empty, and the empty string only when the cleaned
\* text of every attempt is empty.
C4_FirstCleanedText ==
    (tpc = "done" /\ ocr.exists) =>
        IF WithCleanedText # {}
        THEN tret = Cleaned(ocr.out[CHOOSE i \in WithCleanedText :
                                        \A j \in WithCleanedText : i <= j])
        ELSE tret = <<>>

\* the order of the attempts: the PIL image with whitelist and PSM 6, the image
\* read by OpenCV with the default configuration, then the PSM modes
AttemptOrder ==
    <<[reader |-> "PIL", psm |-> <<6>>, whitelist |-> TRUE],
      [reader |-> "cv2", psm |-> <<>>, whitelist |-> FALSE],
      [reader |-> "PIL", psm |-> <<6>>, whitelist |-> FALSE],
      [reader |-> "PIL", psm |-> <<8>>, whitelist |-> FALSE],
      [reader |-> "PIL", psm |-> <<13>>, whitelist |-> FALSE],
      [reader |-> "PIL", psm |-> <<11>>, whitelist |-> FALSE],
      [reader |-> "PIL", psm |-> <<12>>, whitelist |-> FALSE]>>

\* text with a character that is not whitespace
NotBlank(text) == \E i \in 1..Len(text) : text[i] \notin Whitespace

\* C18: the attempts are made in the order PIL with whitelist and PSM 6, OpenCV
\* with the default configuration, PSM 6, 8, 13, 11, 12; after an attempt that
\* yields text no later attempt is made; for a path that does not exist the empty
\* string is returned and no attempt is made.
C18_AttemptOrder ==
    /\ Len(tried) <= Len(AttemptOrder)
    /\ tried = SubSeq(AttemptOrder, 1, Len(tried))
    /\ \A i \in 1..Len(tried) :
           NotBlank(TextOf(ocr.out[i])) => (i = Len(tried) /\ tpc = "done")
    /\ ~ocr.exists => tried = <<>> /\ (tpc = "done" => tret = <<>>)

\* every attempt was made, in vain until the last page segmentation mode gave text
C18_Witness ==
    /\ tpc = "done"
    /\ Len(tried) = Len(AttemptOrder)
    /\ tret # <<>>

(***************************************************************************)
(* Specification SpecPre: the three preprocessing functions called on the  *)
(* files of a directory, their own outputs included.                       *)
(***************************************************************************)
\* an image, an image named without extension, and a file that is no image
InitialFiles ==
    LET a == [base |-> <<"a">>, ext |-> ".png"]
        n == [base |-> <<"n">>, ext |-> ""]
        c == [base |-> <<"c">>, ext |-> ".png"]
    IN  [q \in {a, n, c} |-> IF q = c THEN "corrupt" ELSE "image"]

InitPre ==
    /\ PureIdle /\ DetectorIdle /\ TextIdle /\ StoreIdle /\ WebIdle
    /\ files = InitialFiles
    /\ pcall = NoCall

NextPre ==
    \/ ProcessImage
    \/ EnhanceForOcr
    \/ PreprocessForCodes

SpecPre == InitPre /\ [][NextPre]_vars

\* the source was not read as an image, or a step of the call failed
CallFailed == pcall.outcome \notin {"idle", "written"}

\* C7: when the source cannot be read as an image or a step of the call fails,
\* the preprocessing function returns the path it was given.
C7_InputPathOnFailure == CallFailed => pcall.ret = pcall.path

\* the input's base name plus the function's suffix, before the extension
SuffixedPath(path, name) ==
    [base |-> path.base \o <<CASE name = "process_image" -> "_processed"
                              [] name = "enhance_for_ocr" -> "_enhanced"
                              [] name = "preprocess_for_codes" -> "_codes">>,
     ext |-> path.ext]

\* a call that saved its result returns the suffixed path, which is not the
\* input path and is the one file it wrote
SavedAsNewFile ==
    pcall'.outcome = "written" =>
        /\ pcall'.ret = SuffixedPath(pcall'.path, pcall'.fn)
        /\ pcall'.ret # pcall'.path
        /\ pcall'.wrote = {pcall'.ret}
        /\ pcall'.ret \in DOMAIN files'

\* no call writes to its input; every file other than the one written is there
\* afterwards with the content it had, and no other file appears
InputUntouched ==
    /\ pcall'.path \notin pcall'.wrote
    /\ \A q \in DOMAIN files : q \in DOMAIN files' /\ (q \notin pcall'.wrote => files'[q] = files[q])
    /\ DOMAIN files' \subseteq DOMAIN files \cup pcall'.wrote

\* C20: a call of process_image, enhance_for_ocr or preprocess_for_codes that
\* succeeds writes its result to a file whose path is the input's base name plus
\* '_processed', '_enhanced' or '_codes' before the extension, which differs from
\* the input path, and returns that path; the input file is never written,
\* renamed or removed.
C20_NewFile == [][SavedAsNewFile /\ InputUntouched]_vars

\* enhance_for_ocr saved its result for an image on disk: both files exist
C20_Witness ==
    /\ pcall.fn = "enhance_for_ocr"
    /\ pcall.outcome = "written"
    /\ pcall.path \in DOMAIN files
    /\ pcall.ret \in DOMAIN files
    /\ pcall.ret # pcall.path

(***************************************************************************)
(* Specification SpecArtifacts: the preprocessing and enhancement          *)
(* operations of image_processor and of the two code-extractor modules     *)
(* called on the same files.                                               *)
(***************************************************************************)
InitArtifacts ==
    /\ PureIdle /\ DetectorIdle /\ TextIdle /\ StoreIdle /\ WebIdle
    /\ files = InitialFiles
    /\ pcall = NoCall

NextArtifacts ==
    \/ ProcessImage
    \/ EnhanceForOcr
    \/ PreprocessForCodes
    \/ EnhanceForCodeDetection
    \/ EnhanceForCodeDetectionSimple

SpecArtifacts == InitArtifacts /\ [][NextArtifacts]_vars

\* C22: the artifact paths that different operations derive from one input path
\* are distinct: an operation that saves its artifact right after a different
\* operation saved one for the same input does not write to the other's path.
C22_DistinctArtifacts ==
    [][(/\ pcall.outcome = "written"
        /\ pcall'.outcome = "written"
        /\ pcall'.path = pcall.path
        /\ pcall'.fn # pcall.fn) => pcall'.wrote \cap pcall.wrote = {}]_vars

(***************************************************************************)
(* Specification SpecStorage: direct calls of the RecordStorage methods on *)
(* the records a caller constructs.                                        *)
(***************************************************************************)
InitStorage ==
    /\ PureIdle /\ DetectorIdle /\ TextIdle /\ PreIdle
    /\ StoreIdle /\ WebIdle

NextStorage ==
    \/ Construct
    \/ AddRecord
    \/ GetRecord
    \/ UpdateRecord
    \/ DeleteRecord

SpecStorage == InitStorage /\ [][NextStorage]_vars

\* C24: every record stored under key k in storage.records has id k, and
\* get_record(k) returns None or a record whose id is k.
C24_IdIsKey ==
    /\ \A k \in DOMAIN records : heap[records[k]].id = k
    /\ (scall.op = "get_record" /\ scall.ref # 0) => heap[scall.ref].id = scall.key

(***************************************************************************)
(* Specification SpecWeb: requests of two clients to the routes.           *)
(***************************************************************************)
InitWeb ==
    /\ PureIdle /\ DetectorIdle /\ TextIdle /\ PreIdle
    /\ StoreIdle /\ WebIdle

NextWeb ==
    \/ Index
    \/ Login
    \/ Logout
    \/ Dashboard
    \/ Upload
    \/ Records
    \/ ViewRecord
    \/ EditRecord
    \/ DeleteRecordRoute
    \/ ExportRecords

SpecWeb == InitWeb /\ [][NextWeb]_vars

\* the routes whose handler is wrapped by login_required
WrappedRoutes == {"dashboard", "upload", "records", "view_record", "edit_record",
                  "delete_record", "export_records"}

\* the body of a wrapped handler ran for a session that held the key
BodyOnlyLoggedIn ==
    (req'.route \in WrappedRoutes /\ req'.body) =>
        "admin_logged_in" \in session[req'.client]

\* the key appeared in a session by a POST to /login of its client with the secret
KeySetByLoginOnly ==
    \A client \in Clients :
        ("admin_logged_in" \in session'[client] /\ "admin_logged_in" \notin session[client]) =>
            /\ req'.client = client
            /\ req'.route = "login" /\ req'.method = "POST"
            /\ Strip(req'.secret) = ADMIN_SECRET

\* the key is gone from the session after /logout
KeyGoneAfterLogout ==
    req'.route = "logout" => "admin_logged_in" \notin session'[req'.client]

\* C23: the body of a handler wrapped by login_required runs only if the session
\* of the request holds admin_logged_in; the key is set only by a POST to /login
\* with the admin secret, and is absent after /logout until the next such login.
C23_LoginRequired == [][BodyOnlyLoggedIn /\ KeySetByLoginOnly /\ KeyGoneAfterLogout]_vars

\* a client who logged in with the secret deleted the record of an upload while
\* the other client is not logged in
C23_Witness ==
    /\ req.route = "delete_record" /\ req.body
    /\ LoggedIn(session[req.client])
    /\ \E other \in Clients \ {req.client} : ~LoggedIn(session[other])
    /\ DOMAIN records = {} /\ Len(heap) = 1

\* C25: when upload has saved the file and stored its record, the '_processed'
\* artifact, if it differs from the saved upload, is gone from the upload folder
\* when the handler returns, whether or not the saved upload could be removed
\* (unless the removal of the artifact itself failed).
C25_ArtifactRemoved ==
    (/\ req.route = "upload" /\ req.stored
     /\ req.processed # req.saved
     /\ req.remove_failed # "processed") => req.processed \notin DOMAIN files

(***************************************************************************)
(* Specification SpecCascade: extract_text_from_image and                  *)
(* extract_codes_from_image on one uploaded file, with attempts that raise *)
(* or succeed.                                                             *)
(***************************************************************************)
CascadeImages ==
    {[exists |-> TRUE, w |-> CodesWidth, h |-> 2, symbols |-> Placed(kinds)] :
        kinds \in SeqsUpTo(SymbolKinds, 1)}

\* the attempts before the k-th raise, the k-th and the later ones recognize a word
RaisingBefore(k) ==
    [i \in 1..NumAttempts |-> IF i < k THEN Raised ELSE Recognized(<<"a", "\n">>)]

InitCascade ==
    /\ PureIdle /\ PreIdle /\ StoreIdle /\ WebIdle
    /\ PYZBAR_AVAILABLE \in BOOLEAN
    /\ img \in CascadeImages
    /\ DetectorReady
    /\ \E k \in 1..(NumAttempts + 1) : ocr = [exists |-> TRUE, out |-> RaisingBefore(k)]
    /\ TextReady

NextCascade ==
    \/ NextText
    \/ NextCodes

SpecCascade == InitCascade /\ [][NextCascade]_vars

\* the attempt extract_text_from_image is about to make
AttemptAt == IF tpc = "pil" THEN PilAttempt
             ELSE IF tpc = "cv" THEN CvAttempt ELSE PsmAttempt(tidx)

CodePositions == {"idle", "pil", "cv", "variant", "ms", "ret", "done", "done_simple"}
TextPositions == {"idle", "pil", "cv", "psm", "none_found", "done"}

\* a step of extract_codes_from_image that ends in an except branch leaves the
\* codes as they are and goes on with the next variant or strategy
CodesGoOn ==
    /\ (detVars' # detVars /\ cpc = "pil" /\ failed' = "pil") =>
           cpc' = "cv" /\ extracted_codes' = extracted_codes
    /\ (detVars' # detVars /\ cpc = "cv" /\ failed' = "cv") =>
           cpc' = "ms" /\ extracted_codes' = extracted_codes
    /\ (detVars' # detVars /\ cpc = "variant" /\ failed' = "variant") =>
           /\ extracted_codes' = extracted_codes
           /\ IF idx < NumVariants THEN cpc' = "variant" /\ idx' = idx + 1
              ELSE cpc' = (IF extracted_codes = <<>> THEN "ms" ELSE "ret")
    /\ (detVars' # detVars /\ mpc = "scale" /\ failed' = "scale") =>
           IF idx < Len(Scales) THEN mpc' = "scale" /\ idx' = idx + 1
           ELSE mpc' = "done"
    /\ cpc' \in CodePositions

\* an attempt of extract_text_from_image that raises is followed by the next one
TextGoesOn ==
    /\ (textVars' # textVars /\ tpc \in {"pil", "cv", "psm"}
           /\ ocr.out[AttemptAt].kind = "raise") =>
           /\ tret' = tret
           /\ IF tpc = "pil" THEN tpc' = "cv"
              ELSE IF tpc = "cv" THEN tpc' = "psm" /\ tidx' = 1
              ELSE IF tidx < Len(psm_modes) THEN tpc' = "psm" /\ tidx' = tidx + 1
              ELSE tpc' = "none_found"
    /\ tpc' \in TextPositions

\* C14: an exception inside one strategy or attempt is caught and counts as
\* nothing found: extract_codes_from_image goes on with the remaining variants and
\* strategies, extract_text_from_image with the later attempts, and neither ends
\* by raising.
C14_FailuresCaught == [][CodesGoOn /\ TextGoesOn]_vars

\* the PIL attempt raised and a later attempt gave the text; the direct decode and
\* the first variant raised and the second variant is next
C14_Witness ==
    /\ ocr.out[PilAttempt].kind = "raise"
    /\ tpc = "done"
    /\ tret # <<>>
    /\ log = <<"open", "imread", "variants">>
    /\ contrib.direct = 0
    /\ cpc = "variant"
    /\ idx = 2
    /\ failed = "variant"

====
